---- MODULE Spec2Model ----
(***************************************************************************)
(* Model of the bitemporal data writer (DataWriterDataFusion): the         *)
(* metadata projection, stage, commit and write, over a content-addressed  *)
(* metadata chain with a head reference and a data object repository.      *)
(*                                                                         *)
(* Hashes of metadata blocks are modelled by the position of the block in  *)
(* `blocks` (allocation order); the physical hash of a data slice is       *)
(* modelled by the content of the file itself (equal bytes, equal name).   *)
(* Option<T> is modelled as a sequence: None = <<>>, Some(v) = <<v>>.      *)
(***************************************************************************)
EXTENDS Integers, Sequences, FiniteSets, TLC

\* ------------------------------------------------------------------ bounds
MaxBlocks == 4          \* longest metadata chain explored (Seed included)
MaxRows == 2            \* most rows in one input batch
MaxTime == 2            \* event times are 1..MaxTime
MaxSourceState == 1     \* source states are None and 1..MaxSourceState

Writers == {"W1", "W2"}

\* ------------------------------------------------------------------ Option
None == <<>>
Some(v) == <<v>>

NoHash == 0

VARIABLES
    blocks,     \* metadata blocks by hash: blocks[h] = [prev_block_hash, event]
    head,       \* the "head" reference of the metadata chain
    dataRepo,   \* data object repository: the set of stored slice hashes
    meta,       \* meta[w]: DataWriterMetadataState held by writer w
    held,       \* held[w]: Option<StageDataResult> the caller of w holds
    pc,         \* pc[w]: position of w's running commit ("idle" when none)
    call,       \* call[w]: locals of w's running commit
    last,       \* outcome of the call that completed most recently
    ws,         \* the datasets of the workspace and of the remote repository
    tasks,      \* the task states the task service returns, by task id
    configFile, \* the "config" file of a dataset: the persisted DatasetConfig
    handles     \* handles[h]: the DatasetConfig held by RemoteAliases handle h

vars == <<blocks, head, dataRepo, meta, held, pc, call, last, ws, tasks, configFile, handles>>

\* What the data writer does not touch, and what it works on
apart == <<ws, tasks, configFile, handles>>
aliasVars == <<configFile, handles>>
writerVars == <<blocks, head, dataRepo, meta, held, pc, call>>

\* ------------------------------------------------------------------ vocabulary and schemas
DefaultVocab ==
    [offset_column |-> "offset",
     system_time_column |-> "system_time",
     event_time_column |-> "event_time"]

TimestampMsUtc == "Timestamp(Millisecond, UTC)"
TimestampTypes == {TimestampMsUtc, "Timestamp(Nanosecond)"}
EventTimeTypes == {"Date32", "Date64"} \cup TimestampTypes

Field(n, t) == [name |-> n, type |-> t]

\* Input schemas the callers submit
GoodSchema == <<Field("event_time", "Timestamp(Nanosecond)"), Field("v", "Int64")>>
NoEventTimeSchema == <<Field("v", "Int64")>>
CollidingSchema == <<Field("offset", "Int64"), Field("v", "Int64")>>
DateSchema == <<Field("event_time", "Date32"), Field("v", "Int64")>>

\* ------------------------------------------------------------------ sequences
Reverse(s) == [i \in 1..Len(s) |-> s[Len(s) + 1 - i]]

RECURSIVE Concat(_)
Concat(ss) == IF ss = <<>> THEN <<>> ELSE Head(ss) \o Concat(Tail(ss))

\* ------------------------------------------------------------------ inputs
EventTimes == 1..MaxTime
SourceStates == {None} \cup {Some(s) : s \in 1..MaxSourceState}

\* A raw row carries its event time when the batch has an event-time column
RawRow(t) == [event_time |-> t]

\* The batches of GoodSchema: up to MaxRows rows of distinct event times,
\* submitted newest first (so that the annotator has to reorder them)
RECURSIVE Descending(_)
Descending(T) ==
    IF T = {} THEN <<>>
    ELSE LET t == CHOOSE x \in T : \A y \in T : y <= x
         IN  <<RawRow(Some(t))>> \o Descending(T \ {t})

DataFrames ==
    {[schema |-> GoodSchema, rows |-> Descending(T)] :
        T \in {X \in SUBSET EventTimes : Cardinality(X) <= MaxRows}}
    \cup {[schema |-> NoEventTimeSchema, rows |-> <<RawRow(None)>>],
          [schema |-> CollidingSchema, rows |-> <<>>],
          [schema |-> DateSchema, rows |-> <<RawRow(Some(1))>>]}
NewData == {None} \cup {Some(df) : df \in DataFrames}

WriteDataOpts == [source_event_time : EventTimes, source_state : SourceStates]

HasEventTime(new_data) ==
    new_data # None /\ \E i \in 1..Len(new_data[1].schema) :
                           new_data[1].schema[i].name = "event_time"

\* ------------------------------------------------------------------ metadata events
Seed == [type |-> "Seed", dataset_kind |-> "Root"]

SetDataSchema(schema) == [type |-> "SetDataSchema", schema |-> schema]

AddData(add_data, output_data, output_checkpoint) ==
    [type |-> "AddData",
     input_checkpoint |-> add_data.input_checkpoint,
     output_data |-> output_data,
     output_checkpoint |-> output_checkpoint,
     output_watermark |-> add_data.output_watermark,
     source_state |-> add_data.source_state]

MergeStrategyAppend == [kind |-> "Append"]
MergeStrategyLedger(primary_key) == [kind |-> "Ledger", primary_key |-> primary_key]
MergeStrategySnapshot(primary_key) == [kind |-> "Snapshot", primary_key |-> primary_key]

SetPollingSource(merge_strategy) == [type |-> "SetPollingSource", merge |-> merge_strategy]

\* ------------------------------------------------------------------ Metadata Projector
\* The accumulators declared before the scan loop
ScanVars ==
    [schema |-> None,
     source_event |-> None,
     data_slices |-> <<>>,
     last_checkpoint |-> None,
     last_watermark |-> None,
     last_source_state |-> None,
     vocab |-> None,
     last_offset |-> None,
     result |-> "Ok"]

\* Mutant of the SetWatermark arm: the watermark is taken whether or not a
\* newer block gave one
ScanSetWatermark_Overwrites(acc, e) ==
    [acc EXCEPT !.last_watermark = Some(Some(e.output_watermark))]

\* The SetWatermark arm of the scan loop
ScanSetWatermark(acc, e) ==
    IF acc.last_watermark = None
    THEN [acc EXCEPT !.last_watermark = Some(Some(e.output_watermark))]
    ELSE acc

\* Mutant of the SetPollingSource arm: a polling source is taken whatever name
\* was requested
ScanSetPollingSource_IgnoresName(acc, e, source_name) ==
    IF acc.source_event = None THEN [acc EXCEPT !.source_event = Some(e)] ELSE acc

\* The SetPollingSource arm of the scan loop
ScanSetPollingSource(acc, e, source_name) ==
    IF source_name # None THEN [acc EXCEPT !.result = "SourceNotFound"]
    ELSE IF acc.source_event = None THEN [acc EXCEPT !.source_event = Some(e)]
    ELSE acc

\* Mutant of the AddPushSource arm: the first push source met is taken
\* whatever its name
ScanAddPushSource_AnyName(acc, e, source_name) ==
    IF acc.source_event = None THEN [acc EXCEPT !.source_event = Some(e)] ELSE acc

\* The AddPushSource arm of the scan loop
ScanAddPushSource(acc, e, source_name) ==
    IF acc.source_event = None /\ source_name = e.source_name
    THEN [acc EXCEPT !.source_event = Some(e)]
    ELSE acc

\* One iteration of the scan loop: the match on block.event
ScanEvent(acc, e, source_name) ==
    CASE e.type = "SetDataSchema" ->
            IF acc.schema = None THEN [acc EXCEPT !.schema = Some(e.schema)] ELSE acc
      [] e.type = "AddData" ->
            LET a1 == IF e.output_data # None
                      THEN [acc EXCEPT
                              !.data_slices = Append(@, e.output_data[1].physical_hash),
                              !.last_offset =
                                  IF @ = None THEN Some(e.output_data[1].interval.end) ELSE @]
                      ELSE acc
                cp == IF e.output_checkpoint = None
                      THEN None
                      ELSE Some(e.output_checkpoint[1].physical_hash)
            IN  [a1 EXCEPT
                   !.last_checkpoint = IF @ = None THEN Some(cp) ELSE @,
                   !.last_watermark = IF @ = None THEN Some(e.output_watermark) ELSE @,
                   !.last_source_state = IF @ = None THEN Some(e.source_state) ELSE @]
      [] e.type = "SetWatermark" -> ScanSetWatermark(acc, e)
      [] e.type = "SetPollingSource" -> ScanSetPollingSource(acc, e, source_name)
      [] e.type = "AddPushSource" -> ScanAddPushSource(acc, e, source_name)
      [] e.type = "SetVocab" -> [acc EXCEPT !.vocab = Some(e.vocab)]
      [] e.type = "Seed" ->
            IF e.dataset_kind = "Root" THEN acc ELSE [acc EXCEPT !.result = "Panic"]
      [] e.type \in {"DisablePollingSource", "DisablePushSource", "ExecuteQuery"} ->
            [acc EXCEPT !.result = "Panic"]
      [] OTHER -> acc

\* The scan loop over iter_blocks_interval(head, None): newest block first
RECURSIVE ScanBlocks(_, _, _, _)
ScanBlocks(bs, h, acc, source_name) ==
    IF h = NoHash \/ acc.result # "Ok" THEN acc
    ELSE ScanBlocks(bs, bs[h].prev_block_hash, ScanEvent(acc, bs[h].event, source_name),
                    source_name)

UnwrapOrDefault(o) == IF o = None THEN None ELSE o[1]

\* Mutant of the match on (source_event, source_name): a missing named source
\* is no error, the strategy is Append
ScanMergeStrategy_MissingIsAppend(source_event, source_name) ==
    IF source_event # None THEN [result |-> "Ok", merge |-> source_event[1].merge]
    ELSE [result |-> "Ok", merge |-> MergeStrategyAppend]

\* let merge_strategy = match (&source_event, source_name)
ScanMergeStrategy(source_event, source_name) ==
    CASE source_event # None -> [result |-> "Ok", merge |-> source_event[1].merge]
      [] source_event = None /\ source_name = None ->
            [result |-> "Ok", merge |-> MergeStrategyAppend]
      [] OTHER -> [result |-> "SourceNotFound"]

\* with_metadata_state_scanned: [result, state]
with_metadata_state_scanned(bs, h, source_name) ==
    LET acc == ScanBlocks(bs, h, ScanVars, source_name)
        merge_strategy == ScanMergeStrategy(acc.source_event, source_name)
    IN  IF acc.result # "Ok" THEN [result |-> acc.result, state |-> None]
        ELSE IF merge_strategy.result # "Ok"
        THEN [result |-> merge_strategy.result, state |-> None]
        ELSE [result |-> "Ok",
              state |-> Some(
                [head |-> h,
                 schema |-> acc.schema,
                 source_event |-> acc.source_event,
                 merge_strategy |-> merge_strategy.merge,
                 vocab |-> IF acc.vocab = None THEN DefaultVocab ELSE acc.vocab[1],
                 data_slices |-> acc.data_slices,
                 last_offset |-> acc.last_offset,
                 last_checkpoint |-> UnwrapOrDefault(acc.last_checkpoint),
                 last_watermark |-> UnwrapOrDefault(acc.last_watermark),
                 last_source_state |-> UnwrapOrDefault(acc.last_source_state)])]

\* ------------------------------------------------------------------ stage: helpers
HasColumn(schema, name) == \E i \in 1..Len(schema) : schema[i].name = name

HasEventTimeColumn(schema) == HasColumn(schema, "event_time")

\* Mutant of validate_input: the columns are looked up under the default
\* names, whatever the vocabulary of the dataset
validate_input_DefaultNames(m, df) ==
    /\ ~HasColumn(df.schema, "offset")
    /\ ~HasColumn(df.schema, "system_time")
    /\ \A i \in 1..Len(df.schema) :
          df.schema[i].name = "event_time" => df.schema[i].type \in EventTimeTypes

\* TRUE when the input is accepted, FALSE for BadInputSchemaError
validate_input(m, df) ==
    /\ ~HasColumn(df.schema, m.vocab.offset_column)
    /\ ~HasColumn(df.schema, m.vocab.system_time_column)
    /\ \A i \in 1..Len(df.schema) :
          df.schema[i].name = m.vocab.event_time_column
              => df.schema[i].type \in EventTimeTypes

\* Every Timestamp column is cast to Timestamp(Millisecond, UTC)
normalize_raw_result(df) ==
    [df EXCEPT !.schema =
        [i \in 1..Len(df.schema) |->
            IF df.schema[i].type \in TimestampTypes
            THEN Field(df.schema[i].name, TimestampMsUtc)
            ELSE df.schema[i]]]

\* Mutant of get_all_previous_data: no previous slice is read
get_all_previous_data_NoSlices(prev_data_slices) == None

\* Mutant of get_all_previous_data: the last slice of the list alone is read
get_all_previous_data_LastOnly(prev_data_slices) ==
    IF prev_data_slices = <<>> THEN None
    ELSE Some(prev_data_slices[Len(prev_data_slices)])

\* The rows of the previous slices, read in the order of data_slices.iter().rev()
get_all_previous_data(prev_data_slices) ==
    IF prev_data_slices = <<>> THEN None
    ELSE Some(Concat(Reverse(prev_data_slices)))

\* ------------------------------------------------------------------ merge strategies
\* The key of a row under the primary key (a sequence of column names)
KeyOf(r, primary_key) == [i \in 1..Len(primary_key) |-> r[primary_key[i]]]

PrevRows(prev) == IF prev = None THEN <<>> ELSE prev[1]

KeysOf(rows, primary_key) == {KeyOf(rows[i], primary_key) : i \in 1..Len(rows)}

\* MergeStrategyLedger::merge: the rows of `new` whose key is in no row of
\* `prev`, in their order; a null in a key column is an error
MergeStrategyLedger_merge(primary_key, prev, new) ==
    IF \E i \in 1..Len(new.rows) : \E j \in 1..Len(primary_key) :
            new.rows[i][primary_key[j]] = None
    THEN [kind |-> "MergeError"]
    ELSE LET known == KeysOf(PrevRows(prev), primary_key)
             IsNewKey(r) == KeyOf(r, primary_key) \notin known
         IN  [kind |-> "Ok", df |-> [new EXCEPT !.rows = SelectSeq(@, IsNewKey)]]

\* The observation column of the Snapshot strategy and its values
ObservationColumn == "op"
Retractions == {"-D", "-U"}

\* The latest row of every key: the row of the greatest offset
LatestPerKey(rows, primary_key, offset_column) ==
    {rows[i] : i \in {x \in 1..Len(rows) :
                        \A y \in 1..Len(rows) :
                            KeyOf(rows[y], primary_key) = KeyOf(rows[x], primary_key)
                                => rows[y][offset_column] <= rows[x][offset_column]}}

\* The state the previous data describes: the latest row of every key that
\* has not been deleted
LatestState(rows, primary_key, offset_column) ==
    {r \in LatestPerKey(rows, primary_key, offset_column) : r[ObservationColumn] # "-D"}

\* The columns compared: every column of the batch outside the key
CompareColumns(schema, primary_key) ==
    {schema[i].name : i \in 1..Len(schema)} \ {primary_key[j] : j \in 1..Len(primary_key)}

\* A change row: the columns of the batch taken from `vals`, and the operation
ChangeRow(new, vals, op) ==
    [c \in {new.schema[i].name : i \in 1..Len(new.schema)}
              \cup {"event_time", ObservationColumn} |->
        IF c = ObservationColumn THEN op
        ELSE IF c = "event_time" /\ ~HasEventTimeColumn(new.schema) THEN None
        ELSE vals[c]]

\* The change rows of one key: nothing, +I, -D, or -U followed by +U
ChangesOfKey(k, old, new, primary_key) ==
    LET olds == {r \in old : KeyOf(r, primary_key) = k}
        news == {i \in 1..Len(new.rows) : KeyOf(new.rows[i], primary_key) = k}
        o == CHOOSE r \in olds : TRUE
        n == new.rows[CHOOSE i \in news : TRUE]
    IN  IF olds = {} THEN <<ChangeRow(new, n, "+I")>>
        ELSE IF news = {} THEN <<ChangeRow(new, o, "-D")>>
        ELSE IF \A c \in CompareColumns(new.schema, primary_key) : o[c] = n[c] THEN <<>>
        ELSE <<ChangeRow(new, o, "-U"), ChangeRow(new, n, "+U")>>

\* The keys in ascending order
RECURSIVE KeysAscending(_)
KeysAscending(K) ==
    IF K = {} THEN <<>>
    ELSE LET k == CHOOSE x \in K : \A y \in K : x[1][1] <= y[1][1]
         IN  <<k>> \o KeysAscending(K \ {k})

RECURSIVE ChangesOfKeys(_, _, _, _)
ChangesOfKeys(ks, old, new, primary_key) ==
    IF ks = <<>> THEN <<>>
    ELSE ChangesOfKey(Head(ks), old, new, primary_key)
            \o ChangesOfKeys(Tail(ks), old, new, primary_key)

\* MergeStrategySnapshot::merge: the difference between the batch and the
\* latest state of the previous data, as change rows ordered by key and then
\* by operation
MergeStrategySnapshot_merge(primary_key, offset_column, prev, new) ==
    LET old == LatestState(PrevRows(prev), primary_key, offset_column)
        keys == KeysOf(new.rows, primary_key)
                    \cup {KeyOf(r, primary_key) : r \in old}
    IN  [kind |-> "Ok",
         df |-> [schema |-> Append(new.schema, Field(ObservationColumn, "Utf8")),
                 rows |-> ChangesOfKeys(KeysAscending(keys), old, new, primary_key)]]

\* merge_strategy_for: the strategy object of a merge configuration
merge_strategy_for(conf, vocab) ==
    CASE conf.kind = "Ledger" -> [kind |-> "Ledger", primary_key |-> conf.primary_key]
      [] conf.kind = "Snapshot" ->
            [kind |-> "Snapshot", primary_key |-> conf.primary_key,
             offset_column |-> vocab.offset_column]
      [] OTHER -> [kind |-> "Append"]

\* self.merge_strategy.merge(prev, df)
merge(strategy, prev, new) ==
    CASE strategy.kind = "Ledger" ->
            MergeStrategyLedger_merge(strategy.primary_key, prev, new)
      [] strategy.kind = "Snapshot" ->
            MergeStrategySnapshot_merge(strategy.primary_key, strategy.offset_column,
                                        prev, new)
      [] OTHER -> [kind |-> "Ok", df |-> new]

RECURSIVE InsertByEventTime(_, _)
InsertByEventTime(sorted, r) ==
    IF sorted = <<>> THEN <<r>>
    ELSE IF r.event_time < Head(sorted).event_time THEN <<r>> \o sorted
    ELSE <<Head(sorted)>> \o InsertByEventTime(Tail(sorted), r)

\* ORDER BY event_time ASC (stable)
RECURSIVE SortByEventTime(_)
SortByEventTime(rows) ==
    IF rows = <<>> THEN <<>>
    ELSE InsertByEventTime(SortByEventTime(SubSeq(rows, 1, Len(rows) - 1)), rows[Len(rows)])

\* Mutant of with_system_columns: the row numbers follow the order of the
\* batch, not the event times
with_system_columns_Unsorted(m, df, fallback_event_time, start_offset) ==
    LET et == m.vocab.event_time_column
        IsRaw(f) == f.name # et
        raw_columns_wo_event_time == SelectSeq(df.schema, IsRaw)
        has_et == HasColumn(df.schema, et)
        IsEt(f) == f.name = et
        et_field == IF has_et THEN SelectSeq(df.schema, IsEt)[1]
                    ELSE Field(et, TimestampMsUtc)
        timed == [i \in 1..Len(df.rows) |->
                    [df.rows[i] EXCEPT !.event_time =
                        IF has_et THEN @[1] ELSE fallback_event_time]]
        sorted == timed
    IN  [schema |-> <<Field(m.vocab.offset_column, "Int64"),
                      Field(m.vocab.system_time_column, TimestampMsUtc),
                      et_field>> \o raw_columns_wo_event_time,
         rows |-> [i \in 1..Len(sorted) |->
                     [offset |-> i + (start_offset - 1)] @@ sorted[i]]]

with_system_columns(m, df, fallback_event_time, start_offset) ==
    LET et == m.vocab.event_time_column
        IsRaw(f) == f.name # et
        raw_columns_wo_event_time == SelectSeq(df.schema, IsRaw)
        has_et == HasColumn(df.schema, et)
        IsEt(f) == f.name = et
        et_field == IF has_et THEN SelectSeq(df.schema, IsEt)[1]
                    ELSE Field(et, TimestampMsUtc)
        timed == [i \in 1..Len(df.rows) |->
                    [df.rows[i] EXCEPT !.event_time =
                        IF has_et THEN @[1] ELSE fallback_event_time]]
        sorted == SortByEventTime(timed)
    IN  [schema |-> <<Field(m.vocab.offset_column, "Int64"),
                      Field(m.vocab.system_time_column, TimestampMsUtc),
                      et_field>> \o raw_columns_wo_event_time,
         rows |-> [i \in 1..Len(sorted) |->
                     [offset |-> i + (start_offset - 1)] @@ sorted[i]]]

\* Mutant of validate_output_schema: any schema is accepted
validate_output_schema_AcceptsAll(m, new_schema) == TRUE

\* TRUE when the schema is accepted, FALSE for BadInputSchemaError
validate_output_schema(m, new_schema) ==
    m.schema = None \/ m.schema[1] = new_schema

\* The staged file (its rows), or None when no record was written
write_output(df) == IF Len(df.rows) > 0 THEN Some(df.rows) ELSE None

SetMin(S) == CHOOSE x \in S : \A y \in S : x <= y
SetMax(S) == CHOOSE x \in S : \A y \in S : y <= x

\* Mutant of compute_offset_and_watermark: the watermark is the maximum event
\* time of the slice, whatever the previous watermark
compute_offset_and_watermark_NoMax(file, prev_watermark) ==
    LET offsets == {file[i].offset : i \in 1..Len(file)}
        event_time_max == SetMax({file[i].event_time : i \in 1..Len(file)})
    IN  <<[start |-> SetMin(offsets), end |-> SetMax(offsets)], Some(event_time_max)>>

\* Mutant of compute_offset_and_watermark: a previous watermark is kept as it
\* is, the event times of the slice are looked at only when there is none
compute_offset_and_watermark_KeepsPrev(file, prev_watermark) ==
    LET offsets == {file[i].offset : i \in 1..Len(file)}
        event_time_max == SetMax({file[i].event_time : i \in 1..Len(file)})
    IN  <<[start |-> SetMin(offsets), end |-> SetMax(offsets)],
          IF prev_watermark = None THEN Some(event_time_max) ELSE prev_watermark>>

compute_offset_and_watermark(file, prev_watermark) ==
    LET offsets == {file[i].offset : i \in 1..Len(file)}
        event_time_max == SetMax({file[i].event_time : i \in 1..Len(file)})
        offset_interval == [start |-> SetMin(offsets), end |-> SetMax(offsets)]
        output_watermark ==
            IF prev_watermark = None THEN Some(event_time_max)
            ELSE IF prev_watermark[1] < event_time_max THEN Some(event_time_max)
            ELSE prev_watermark
    IN  <<offset_interval, output_watermark>>

\* Mutant of start_offset: the next slice starts at the last offset itself
start_offset_NoIncrement(m) == IF m.last_offset = None THEN 0 ELSE m.last_offset[1]

start_offset(m) == IF m.last_offset = None THEN 0 ELSE m.last_offset[1] + 1

\* ------------------------------------------------------------------ stage
\* Mutant of empty_result_params: the source state of the call is dropped, the
\* writer's is carried
empty_result_params_KeepsSourceState(m, opts) ==
    [input_checkpoint |-> m.last_checkpoint,
     output_data |-> None,
     output_watermark |-> m.last_watermark,
     source_state |-> m.last_source_state]

\* "Empty result - carry watermark and propagate source state"
empty_result_params(m, opts) ==
    [input_checkpoint |-> m.last_checkpoint,
     output_data |-> None,
     output_watermark |-> m.last_watermark,
     source_state |-> opts.source_state]

\* Mutant of no_data_params: the prior watermark is not carried forward
no_data_params_NoWatermark(m, opts) ==
    [input_checkpoint |-> m.last_checkpoint,
     output_data |-> None,
     output_watermark |-> None,
     source_state |-> opts.source_state]

\* The AddDataParams of a call without a batch (new_data = None)
no_data_params(m, opts) ==
    [input_checkpoint |-> m.last_checkpoint,
     output_data |-> None,
     output_watermark |-> m.last_watermark,
     source_state |-> opts.source_state]

\* The tuple (add_data, output_schema, data_file) stage computes, or the error
\* it returns early.  `fault` is a failure of the I/O under stage (previous
\* slices, staged file, statistics), surfaced as Internal.
stage_params(m, new_data, opts, fault) ==
    IF new_data # None
    THEN LET new == new_data[1]
         IN  IF ~validate_input(m, new) THEN [kind |-> "BadInputSchema"]
             ELSE IF fault THEN [kind |-> "Internal"]
             ELSE
             LET normalized == normalize_raw_result(new)
                 prev == get_all_previous_data(m.data_slices)
                 merged == merge(merge_strategy_for(m.merge_strategy, m.vocab), prev,
                                normalized)
             IN  IF merged.kind # "Ok" THEN [kind |-> "MergeError"]
                 ELSE
                 LET df == with_system_columns(m, merged.df, opts.source_event_time,
                                               start_offset(m))
                     output_schema == df.schema
                 IN  IF ~validate_output_schema(m, output_schema)
                     THEN [kind |-> "BadInputSchema"]
                     ELSE
                     LET data_file == write_output(df)
                         stats == compute_offset_and_watermark(data_file[1], m.last_watermark)
                     IN  IF data_file = None
                         THEN [kind |-> "Ok",
                               add_data |-> empty_result_params(m, opts),
                               output_schema |-> Some(output_schema),
                               data_file |-> None]
                         ELSE [kind |-> "Ok",
                               add_data |-> [input_checkpoint |-> m.last_checkpoint,
                                             output_data |-> Some(stats[1]),
                                             output_watermark |-> stats[2],
                                             source_state |-> opts.source_state],
                               output_schema |-> Some(output_schema),
                               data_file |-> data_file]
    ELSE [kind |-> "Ok",
          add_data |-> no_data_params(m, opts),
          output_schema |-> None,
          data_file |-> None]

\* Mutant of nothing_to_commit: the source state is not compared
nothing_to_commit_NoSourceState(m, add_data, opts) ==
    /\ add_data.output_data = None
    /\ add_data.output_watermark = m.last_watermark

\* "Do we have anything to commit?": TRUE when there is nothing
nothing_to_commit(m, add_data, opts) ==
    /\ add_data.output_data = None
    /\ add_data.output_watermark = m.last_watermark
    /\ opts.source_state = m.last_source_state

\* DataWriter::stage: [kind |-> "Ok", staged |-> StageDataResult] or [kind |-> error]
stage(m, new_data, opts, fault) ==
    LET p == stage_params(m, new_data, opts, fault)
    IN  IF p.kind # "Ok" THEN [kind |-> p.kind]
        ELSE IF nothing_to_commit(m, p.add_data, opts) THEN [kind |-> "EmptyCommit"]
        ELSE [kind |-> "Ok",
              staged |-> [add_data |-> p.add_data,
                          output_schema |-> p.output_schema,
                          data_file |-> p.data_file]]

\* Mutant of FromStageDataError: EmptyCommit is reported as an internal error
FromStageDataError_EmptyAsInternal(kind) ==
    CASE kind = "BadInputSchema" -> "BadInputSchema"
      [] kind = "MergeError" -> "MergeError"
      [] kind = "EmptyCommit" -> "Internal"
      [] kind = "Internal" -> "Internal"

\* impl From<StageDataError> for WriteDataError
FromStageDataError(kind) ==
    CASE kind = "BadInputSchema" -> "BadInputSchema"
      [] kind = "MergeError" -> "MergeError"
      [] kind = "EmptyCommit" -> "EmptyCommit"
      [] kind = "Internal" -> "Internal"

\* ------------------------------------------------------------------ state
NoCall == [op |-> "none"]

Block(prev, event) == [prev_block_hash |-> prev, event |-> event]

Outcome(w, op, kind, result) == [w |-> w, op |-> op, kind |-> kind, result |-> result]

\* Building a writer: with_metadata_state_scanned(None) and build()
\* No dataset in the workspace or in the repository, no task
NoDatasets == [d \in {"foo", "bar", "remote"} |-> None]
NoTasks == <<>>

\* No config file in the dataset's directory, no RemoteAliases handle
NoFile == None
Handles == {"H1", "H2"}
NoHandles == [h \in Handles |-> None]

Projection(bs, h) == with_metadata_state_scanned(bs, h, None).state[1]

Init ==
    /\ blocks = <<Block(NoHash, Seed)>>
    /\ head = 1
    /\ dataRepo = {}
    /\ meta = [w \in Writers |-> Projection(<<Block(NoHash, Seed)>>, 1)]
    /\ held = [w \in Writers |-> None]
    /\ pc = [w \in Writers |-> "idle"]
    /\ call = [w \in Writers |-> NoCall]
    /\ last = Outcome("", "init", "Ok", None)
    /\ ws = NoDatasets
    /\ tasks = NoTasks
    /\ configFile = NoFile
    /\ handles = NoHandles

\* ------------------------------------------------------------------ the metadata chain
\* Dataset::commit_event / commit_add_data with prev_block_hash = Some(Some(prev)):
\* accepted only when prev is still the head
CommitAccepted(prev) == prev = head

\* The blocks that define a source: they are in the chain before any writer
\* is made and are not counted in the length explored
SourceBlocks == {i \in 1..Len(blocks) : blocks[i].event.type = "SetPollingSource"}

AppendBlock(prev, event) ==
    /\ Len(blocks) < MaxBlocks + Cardinality(SourceBlocks)
    /\ blocks' = Append(blocks, Block(prev, event))
    /\ head' = Len(blocks) + 1

\* ------------------------------------------------------------------ operations
\* The writer is rebuilt: its state is projected again from the chain
Build(w) ==
    /\ pc[w] = "idle"
    /\ meta' = [meta EXCEPT ![w] = Projection(blocks, head)]
    /\ held' = [held EXCEPT ![w] = None]
    /\ last' = Outcome(w, "build", "Ok", None)
    /\ UNCHANGED <<blocks, head, dataRepo, pc, call>>
    /\ UNCHANGED apart

\* Mutant of Stage: stage moves the file it wrote into the data object repository
Stage_StoresSlice(w, new_data, opts, fault) ==
    /\ pc[w] = "idle"
    /\ LET r == stage(meta[w], new_data, opts, fault = "stage")
       IN  /\ r.kind = "Ok" => Len(blocks) < MaxBlocks
           /\ held' = [held EXCEPT ![w] = IF r.kind = "Ok" THEN Some(r.staged) ELSE @]
           /\ dataRepo' = IF r.kind = "Ok" /\ r.staged.data_file # None
                          THEN dataRepo \cup {r.staged.data_file[1]}
                          ELSE dataRepo
           /\ last' = Outcome(w, "stage", r.kind, None)
    /\ UNCHANGED <<blocks, head, meta, pc, call>>
    /\ UNCHANGED apart

\* DataWriter::stage called on its own: the caller keeps the StageDataResult
Stage(w, new_data, opts, fault) ==
    /\ pc[w] = "idle"
    /\ LET r == stage(meta[w], new_data, opts, fault = "stage")
       IN  /\ r.kind = "Ok" => Len(blocks) < MaxBlocks
           /\ held' = [held EXCEPT ![w] = IF r.kind = "Ok" THEN Some(r.staged) ELSE @]
           /\ last' = Outcome(w, "stage", r.kind, None)
    /\ UNCHANGED <<blocks, head, dataRepo, meta, pc, call>>
    /\ UNCHANGED apart

\* Mutant of NeedsSchemaCommit: the schema the writer knows is not looked at
NeedsSchemaCommit_IgnoresKnown(m, staged) == staged.output_schema # None

\* Mutant of NeedsSchemaCommit: the test on the known schema is inverted
NeedsSchemaCommit_Inverted(m, staged) == m.schema # None /\ staged.output_schema # None

\* Mutant of NeedsSchemaCommit: the schema is committed only with a data file
NeedsSchemaCommit_OnlyWithData(m, staged) ==
    m.schema = None /\ staged.output_schema # None /\ staged.data_file # None

\* commit: the schema has to be committed before the data
NeedsSchemaCommit(m, staged) == m.schema = None /\ staged.output_schema # None

\* A running call c of writer w ends with an error
Fail(w, c, kind) ==
    /\ pc' = [pc EXCEPT ![w] = "idle"]
    /\ last' = Outcome(w, c.op, kind, None)
    /\ call' = [call EXCEPT ![w] = NoCall]

\* Mutant of CommitSchema: the schema commit names no expected previous block
CommitSchema_NoPrevHash(w, c, fault) ==
    /\ IF ~fault
       THEN /\ AppendBlock(head, SetDataSchema(c.staged.output_schema[1]))
            /\ meta' = [meta EXCEPT ![w].head = Len(blocks) + 1,
                                    ![w].schema = c.staged.output_schema]
            /\ pc' = [pc EXCEPT ![w] = "commit_data"]
            /\ call' = [call EXCEPT ![w] = c]
            /\ UNCHANGED last
       ELSE /\ Fail(w, c, "CommitError")
            /\ UNCHANGED <<blocks, head, meta>>
    /\ UNCHANGED dataRepo

\* commit: "Commit schema if it was not previously defined"
CommitSchema(w, c, fault) ==
    /\ IF ~fault /\ CommitAccepted(meta[w].head)
       THEN /\ AppendBlock(meta[w].head, SetDataSchema(c.staged.output_schema[1]))
            /\ meta' = [meta EXCEPT ![w].head = Len(blocks) + 1,
                                    ![w].schema = c.staged.output_schema]
            /\ pc' = [pc EXCEPT ![w] = "commit_data"]
            /\ call' = [call EXCEPT ![w] = c]
            /\ UNCHANGED last
       ELSE /\ Fail(w, c, "CommitError")
            /\ UNCHANGED <<blocks, head, meta>>
    /\ UNCHANGED dataRepo

\* Mutant of CommitData: the data commit names no expected previous block, so
\* the block is appended to whatever the head is
CommitData_NoPrevHash(w, c, fault) ==
    /\ LET staged == c.staged
           output_data ==
               IF staged.add_data.output_data = None THEN None
               ELSE Some([interval |-> staged.add_data.output_data[1],
                          physical_hash |-> staged.data_file[1]])
       IN  IF ~fault
           THEN /\ AppendBlock(head, AddData(staged.add_data, output_data, None))
                /\ dataRepo' = IF staged.data_file = None THEN dataRepo
                               ELSE dataRepo \cup {staged.data_file[1]}
                /\ pc' = [pc EXCEPT ![w] = "read_back"]
                /\ call' = [call EXCEPT ![w] =
                              [op |-> c.op, old_head |-> c.old_head,
                               new_head |-> Len(blocks) + 1]]
                /\ UNCHANGED last
           ELSE /\ Fail(w, c, "CommitError")
                /\ UNCHANGED <<blocks, head, dataRepo>>
    /\ UNCHANGED meta

\* commit: dataset.commit_add_data(add_data, data_file, None, prev_block_hash = meta.head)
CommitData(w, c, fault) ==
    /\ LET staged == c.staged
           output_data ==
               IF staged.add_data.output_data = None THEN None
               ELSE Some([interval |-> staged.add_data.output_data[1],
                          physical_hash |-> staged.data_file[1]])
       IN  IF ~fault /\ CommitAccepted(meta[w].head)
           THEN /\ AppendBlock(meta[w].head, AddData(staged.add_data, output_data, None))
                /\ dataRepo' = IF staged.data_file = None THEN dataRepo
                               ELSE dataRepo \cup {staged.data_file[1]}
                /\ pc' = [pc EXCEPT ![w] = "read_back"]
                /\ call' = [call EXCEPT ![w] =
                              [op |-> c.op, old_head |-> c.old_head,
                               new_head |-> Len(blocks) + 1]]
                /\ UNCHANGED last
           ELSE /\ Fail(w, c, "CommitError")
                /\ UNCHANGED <<blocks, head, dataRepo>>
    /\ UNCHANGED meta

\* commit, from its entry to its first await that takes effect
CommitEnter(w, op, staged, fault) ==
    LET c == [op |-> op, staged |-> staged, old_head |-> meta[w].head]
    IN  IF NeedsSchemaCommit(meta[w], staged)
        THEN CommitSchema(w, c, fault)
        ELSE CommitData(w, c, fault)

\* DataWriter::commit called with the StageDataResult the caller holds
Commit(w, fault) ==
    /\ pc[w] = "idle"
    /\ held[w] # None
    /\ CommitEnter(w, "commit", held[w][1], fault)
    /\ held' = [held EXCEPT ![w] = None]
    /\ UNCHANGED apart

\* DataWriter::write: stage, `?`, then commit up to its first await
Write(w, new_data, opts, fault) ==
    /\ pc[w] = "idle"
    /\ LET r == stage(meta[w], new_data, opts, fault = "stage")
       IN  IF r.kind = "Ok"
           THEN CommitEnter(w, "write", r.staged, fault = "commit")
           ELSE /\ last' = Outcome(w, "write", FromStageDataError(r.kind), None)
                /\ UNCHANGED <<blocks, head, dataRepo, meta, pc, call>>
    /\ UNCHANGED held
    /\ UNCHANGED apart

\* commit resumed after the schema commit: the data commit
CommitDataStep(w, fault) ==
    /\ pc[w] = "commit_data"
    /\ CommitData(w, call[w], fault)
    /\ UNCHANGED held
    /\ UNCHANGED apart

\* Mutant of UpdateState: the source state of the new block is not taken over
UpdateState_KeepsSourceState(m, new_head, new_block) ==
    LET e == new_block.event
        m1 == [m EXCEPT !.head = new_head]
        m2 == IF e.output_data # None
              THEN [m1 EXCEPT !.last_offset = Some(e.output_data[1].interval.end),
                              !.data_slices = Append(@, e.output_data[1].physical_hash)]
              ELSE m1
    IN  [m2 EXCEPT
           !.last_checkpoint = IF e.output_checkpoint = None THEN None
                               ELSE Some(e.output_checkpoint[1].physical_hash),
           !.last_watermark = e.output_watermark]

\* Mutant of UpdateState: the slice is recorded, the last offset is not
UpdateState_KeepsOffset(m, new_head, new_block) ==
    LET e == new_block.event
        m1 == [m EXCEPT !.head = new_head]
        m2 == IF e.output_data # None
              THEN [m1 EXCEPT !.data_slices = Append(@, e.output_data[1].physical_hash)]
              ELSE m1
    IN  [m2 EXCEPT
           !.last_checkpoint = IF e.output_checkpoint = None THEN None
                               ELSE Some(e.output_checkpoint[1].physical_hash),
           !.last_watermark = e.output_watermark,
           !.last_source_state = e.source_state]

\* The writer state after the committed block has been read back
UpdateState(m, new_head, new_block) ==
    LET e == new_block.event
        m1 == [m EXCEPT !.head = new_head]
        m2 == IF e.output_data # None
              THEN [m1 EXCEPT !.last_offset = Some(e.output_data[1].interval.end),
                              !.data_slices = Append(@, e.output_data[1].physical_hash)]
              ELSE m1
    IN  [m2 EXCEPT
           !.last_checkpoint = IF e.output_checkpoint = None THEN None
                               ELSE Some(e.output_checkpoint[1].physical_hash),
           !.last_watermark = e.output_watermark,
           !.last_source_state = e.source_state]

\* commit: "Update state for the next append"
ReadBack(w, fault) ==
    /\ pc[w] = "read_back"
    /\ IF ~fault
       THEN /\ meta' = [meta EXCEPT ![w] =
                          UpdateState(meta[w], call[w].new_head, blocks[call[w].new_head])]
            /\ pc' = [pc EXCEPT ![w] = "idle"]
            /\ last' = Outcome(w, call[w].op, "Ok",
                               Some([old_head |-> call[w].old_head,
                                     new_head |-> call[w].new_head]))
            /\ call' = [call EXCEPT ![w] = NoCall]
       ELSE /\ Fail(w, call[w], "CommitError")
            /\ UNCHANGED meta
    /\ UNCHANGED <<blocks, head, dataRepo, held>>
    /\ UNCHANGED apart

\* The caller drops the future of a running write or commit at an await
Cancel(w) ==
    /\ pc[w] \in {"commit_data", "read_back"}
    /\ Fail(w, call[w], "Cancelled")
    /\ UNCHANGED <<blocks, head, dataRepo, meta, held>>
    /\ UNCHANGED apart

Faults == {"none", "stage", "commit"}

\* The options of a call that sets nothing
DefaultOpts == [source_event_time |-> 1, source_state |-> None]

\* The calls with a batch explored.  Faults do not depend on the options, so
\* they are injected into calls with the default options; the fallback event
\* time is varied where it is read (a batch without an event-time column); the
\* batch with dates for event times is there for its schema alone.
DataCalls ==
    {c \in [new_data : NewData \ {None}, opts : WriteDataOpts, fault : Faults] :
        /\ c.fault # "none" => c.opts = DefaultOpts
        /\ c.opts.source_event_time # 1 => ~HasEventTime(c.new_data)
        /\ c.new_data[1].schema = DateSchema => c.opts = DefaultOpts /\ c.fault = "none"}

\* The calls write(None, opts) explored
NoDataCalls ==
    {[new_data |-> None, opts |-> [source_event_time |-> 1, source_state |-> s],
      fault |-> "none"] : s \in SourceStates}
    \cup {[new_data |-> None, opts |-> DefaultOpts, fault |-> "commit"]}

Calls == DataCalls \cup NoDataCalls

\* What a caller does with a writer whose call is running, and rebuilding it
Steps(w) ==
    \/ \E fault \in BOOLEAN : CommitDataStep(w, fault)
    \/ \E fault \in BOOLEAN : ReadBack(w, fault)
    \/ Cancel(w)
    \/ Build(w)

\* Two writers on one dataset, their callers using write only
NextWrite ==
    \E w \in Writers :
        \/ Steps(w)
        \/ \E c \in Calls : Write(w, c.new_data, c.opts, c.fault)

SpecWrite == Init /\ [][NextWrite]_vars

\* One writer, its caller using write and also stage and commit on their own
Stager == "W1"

Next ==
    \/ Steps(Stager)
    \/ \E c \in Calls : Write(Stager, c.new_data, c.opts, c.fault)
    \/ \E c \in {x \in Calls : x.fault # "commit"} :
          Stage(Stager, c.new_data, c.opts, c.fault)
    \/ \E fault \in BOOLEAN : Commit(Stager, fault)

Spec == Init /\ [][Next]_vars

\* ------------------------------------------------------------------ reading the chain
\* The blocks from Seed to h, oldest first, following prev_block_hash
RECURSIVE ChainTo(_)
ChainTo(h) ==
    IF h = NoHash THEN <<>> ELSE Append(ChainTo(blocks[h].prev_block_hash), blocks[h])

Chain == ChainTo(head)

IsAddData(b) == b.event.type = "AddData"
CarriesData(b) == b.event.type = "AddData" /\ b.event.output_data # None

AddDataBlocks == SelectSeq(Chain, IsAddData)
DataBlocks == SelectSeq(Chain, CarriesData)

IntervalOf(b) == b.event.output_data[1].interval

\* ------------------------------------------------------------------ claims
\* C1: in every chain produced by write calls from a Seed-only dataset, the
\* data-carrying AddData blocks have intervals [start, end] with start <= end,
\* the first starts at 0 and each later one starts at the previous
\* data-carrying block's end + 1.
C1_OffsetsContiguous ==
    \A i \in 1..Len(DataBlocks) :
        /\ IntervalOf(DataBlocks[i]).start <= IntervalOf(DataBlocks[i]).end
        /\ i = 1 => IntervalOf(DataBlocks[i]).start = 0
        /\ i > 1 => IntervalOf(DataBlocks[i]).start = IntervalOf(DataBlocks[i - 1]).end + 1

\* Two slices were committed, the first of two rows
C1_Witness ==
    /\ Len(DataBlocks) = 2
    /\ IntervalOf(DataBlocks[1]) = [start |-> 0, end |-> 1]
    /\ IntervalOf(DataBlocks[2]).start = 2

\* C2: the output_watermark of each AddData block is at least the watermark of
\* the AddData block before it; once set it never decreases nor becomes unset.
C2_WatermarkMonotonic ==
    \A i \in 2..Len(AddDataBlocks) :
        LET before == AddDataBlocks[i - 1].event.output_watermark
            after == AddDataBlocks[i].event.output_watermark
        IN  before # None => after # None /\ before[1] <= after[1]

\* A slice whose newest event time (1) lies before the watermark (2) was
\* committed, and the watermark stayed
C2_Witness ==
    /\ Len(AddDataBlocks) = 2
    /\ AddDataBlocks[1].event.output_watermark = Some(2)
    /\ CarriesData(AddDataBlocks[2])
    /\ AddDataBlocks[2].event.output_data[1].physical_hash[1].event_time = 1
    /\ AddDataBlocks[2].event.output_watermark = Some(2)

\* ------------------------------------------------------------------ steps, as seen from the state
\* Writer w appended a block in this step
Appended(w) == blocks' # blocks /\ pc'[w] # pc[w]

\* The offset the next slice has to start at, read from the chain
NextOffset == IF DataBlocks = <<>> THEN 0 ELSE IntervalOf(DataBlocks[Len(DataBlocks)]).end + 1

\* Writer w called stage in this step (Stage alone ends with op = "stage" and
\* leaves every pc alone)
StageStep(w) == last'.op = "stage" /\ last'.w = w /\ pc' = pc /\ pc[w] = "idle"

StageErrors == {"BadInputSchema", "MergeError", "EmptyCommit", "Internal"}

\* C3: a writer whose projection was taken from a head that is no longer the
\* chain's head has its commit rejected with CommitError and appends no block;
\* a block a writer does append follows the head, and the slice of a writer
\* that projected again starts at the last committed offset + 1.
C3_OptimisticConcurrency ==
    [][\A w \in Writers :
          /\ (meta[w].head # head /\ pc[w] \in {"idle", "commit_data"} /\ pc'[w] # pc[w])
                => /\ pc'[w] = "idle"
                   /\ last'.w = w /\ last'.kind \in {"CommitError", "Cancelled"}
                   /\ blocks' = blocks /\ head' = head
          /\ (meta[w].head # head /\ pc[w] = "idle" /\ last' # last /\ last'.w = w
                /\ last'.op = "write")
                => /\ last'.kind \in StageErrors \cup {"CommitError"}
                   /\ blocks' = blocks /\ head' = head
          /\ Appended(w)
                => /\ meta[w].head = head
                   /\ blocks' = Append(blocks, blocks'[head'])
                   /\ blocks'[head'].prev_block_hash = head
                   /\ CarriesData(blocks'[head'])
                         => IntervalOf(blocks'[head']).start = NextOffset]_vars

\* W2's write was rejected: W1 had committed a slice since W2 projected
C3_Witness ==
    /\ last = Outcome("W2", "write", "CommitError", None)
    /\ meta["W2"].head = 1
    /\ meta["W1"].head = head
    /\ Len(DataBlocks) = 1
    /\ pc = [w \in Writers |-> "idle"]

\* C4 (the claim, which the code violates): a commit that has appended its
\* SetDataSchema block does not end without appending its AddData block
C4_SchemaAndDataAtomic ==
    [][\A w \in Writers :
          (pc[w] # "idle" /\ pc'[w] = "idle" /\ last'.kind # "Ok")
             => ~(/\ meta[w].head = head'
                  /\ blocks'[head'].event.type = "SetDataSchema"
                  /\ blocks'[head'].prev_block_hash = call[w].old_head)]_vars

\* The three conditions of the emptiness rule, on the AddDataParams staged
NothingChanged(m, add_data) ==
    /\ add_data.output_data = None
    /\ add_data.output_watermark = m.last_watermark
    /\ add_data.source_state = m.last_source_state

StageCalls == {x \in Calls : x.fault # "commit"}

\* C5: stage fails with EmptyCommit exactly when the staged result carries no
\* output data, its watermark equals last_watermark and opts.source_state equals
\* last_source_state; otherwise, validation and merge having succeeded, it
\* returns a StageResult.
C5_EmptyCommitRule ==
    [][\A w \in {Stager} :
          /\ (StageStep(w) /\ last'.kind = "Ok")
                => held'[w] # None /\ ~NothingChanged(meta[w], held'[w][1].add_data)
          /\ (StageStep(w) /\ last'.kind = "EmptyCommit")
                => \A c \in StageCalls :
                      Stage(w, c.new_data, c.opts, c.fault)
                         => LET p == stage_params(meta[w], c.new_data, c.opts, FALSE)
                            IN  /\ p.kind = "Ok"
                                /\ p.add_data.source_state = c.opts.source_state
                                /\ NothingChanged(meta[w], p.add_data)
          /\ StageStep(w)
                => last'.kind \in {"Ok", "EmptyCommit", "BadInputSchema", "Internal"}]_vars

\* stage returned EmptyCommit on a dataset that holds data and a source state
C5_Witness ==
    /\ last = Outcome(Stager, "stage", "EmptyCommit", None)
    /\ meta[Stager].last_source_state # None
    /\ meta[Stager].last_offset # None

\* C6: stage, whatever its outcome, leaves the chain, the data object
\* repository and the writer's projection unchanged; a write that fails with
\* an error other than CommitError leaves the projection and the chain unchanged.
C6_StageReadOnly ==
    [][\A w \in {Stager} :
          /\ StageStep(w)
                => /\ blocks' = blocks /\ head' = head
                   /\ dataRepo' = dataRepo
                   /\ meta' = meta
          /\ (last' # last /\ last'.w = w /\ last'.op = "write"
                /\ last'.kind \in StageErrors)
                => blocks' = blocks /\ head' = head /\ meta' = meta]_vars

\* stage returned a StageResult with a data file, and the repository is empty
C6_Witness ==
    /\ last = Outcome(Stager, "stage", "Ok", None)
    /\ held[Stager] # None
    /\ held[Stager][1].data_file # None
    /\ dataRepo = {}

\* Writer w called write in this step: the call either returned at once or is
\* now running
WriteStep(w) ==
    /\ pc[w] = "idle"
    /\ \/ pc'[w] = "idle" /\ last'.op = "write" /\ last'.w = w /\ held' = held
       \/ pc'[w] # "idle" /\ call'[w].op = "write"

\* The StageDataResult behind a running commit: the one the call carries, or,
\* once the AddData block is appended, the one the block was made from
StagedOf(w) ==
    IF pc'[w] = "commit_data" THEN call'[w].staged
    ELSE LET e == blocks'[head'].event
         IN  [add_data |-> [input_checkpoint |-> e.input_checkpoint,
                            output_data |-> IF e.output_data = None THEN None
                                            ELSE Some(e.output_data[1].interval),
                            output_watermark |-> e.output_watermark,
                            source_state |-> e.source_state],
              output_schema |-> meta[w].schema,
              data_file |-> IF e.output_data = None THEN None
                            ELSE Some(e.output_data[1].physical_hash)]

SameState(a, b) ==
    /\ a.head = b.head
    /\ a.data_slices = b.data_slices
    /\ a.last_offset = b.last_offset
    /\ a.last_checkpoint = b.last_checkpoint
    /\ a.last_watermark = b.last_watermark
    /\ a.last_source_state = b.last_source_state
    /\ a.vocab = b.vocab
    /\ a.source_event = b.source_event
    /\ a.merge_strategy = b.merge_strategy

\* A write or commit of w has just succeeded
JustCommitted(w) ==
    /\ last.w = w /\ last.kind = "Ok" /\ last.op \in {"write", "commit"}
    /\ pc[w] = "idle"

\* C8 (the claim, which the code violates): after a successful commit, the
\* state projected from the chain by the metadata scan equals the state the
\* writer holds in memory, data_slices in the same order
C8_ReprojectionEqualsMemory ==
    \A w \in {Stager} :
        JustCommitted(w) => SameState(Projection(blocks, head), meta[w])

\* The slices a writer holds, whatever a slice's position in data_slices
SliceSet(m) == {m.data_slices[i] : i \in 1..Len(m.data_slices)}

\* Writer w called write in this step (two writers: held is not in use)
WriteStepOf(w) ==
    /\ pc[w] = "idle"
    /\ \/ pc'[w] = "idle" /\ last'.op = "write" /\ last'.w = w
       \/ pc'[w] # "idle"

\* C9: after a successful write whose block carries source state S, the writer
\* holds S as last_source_state, and a write(None, source_state = S) by it
\* fails with EmptyCommit and leaves the chain, the repository and the
\* writer's projection unchanged.
C9_SameSourceStateIsEmpty ==
    [][\A w \in Writers :
          pc[w] = "idle"
             => /\ (last.w = w /\ last.op = "write" /\ last.kind = "Ok")
                      => /\ meta[w].head = last.result[1].new_head
                         /\ meta[w].last_source_state =
                               blocks[last.result[1].new_head].event.source_state
                /\ WriteStepOf(w)
                      => \A c \in {x \in NoDataCalls :
                                      x.opts.source_state = meta[w].last_source_state} :
                            Write(w, c.new_data, c.opts, c.fault)
                               => /\ last' = Outcome(w, "write", "EmptyCommit", None)
                                  /\ UNCHANGED <<blocks, head, dataRepo, meta, pc>>]_vars

\* write(None, S) returned EmptyCommit to the writer whose AddData block with
\* source state S is the head
C9_Witness ==
    \E w \in Writers :
        /\ last = Outcome(w, "write", "EmptyCommit", None)
        /\ meta[w].head = head
        /\ IsAddData(blocks[head])
        /\ blocks[head].event.source_state = Some(1)
        /\ meta[w].last_source_state = Some(1)

\* C10: write(None, source_state = S_new), with S_new other than
\* last_source_state, by a writer whose head is the chain's, appends exactly one
\* AddData block with no output data, the prior watermark and S_new; reading
\* it back ends the call with Ok and leaves last_offset and data_slices.
C10_SourceStateOnlyCommit ==
    [][\A w \in Writers :
          /\ (WriteStepOf(w) /\ meta[w].head = head)
                => \A c \in {x \in NoDataCalls :
                                /\ x.fault = "none"
                                /\ x.opts.source_state # meta[w].last_source_state} :
                      Write(w, c.new_data, c.opts, c.fault)
                         => /\ blocks' = Append(blocks, blocks'[head'])
                            /\ head' = Len(blocks) + 1
                            /\ blocks'[head'].prev_block_hash = head
                            /\ blocks'[head'].event.type = "AddData"
                            /\ blocks'[head'].event.output_data = None
                            /\ blocks'[head'].event.output_watermark = meta[w].last_watermark
                            /\ blocks'[head'].event.source_state = c.opts.source_state
                            /\ pc'[w] = "read_back"
                            /\ dataRepo' = dataRepo /\ meta' = meta
          /\ (/\ pc[w] = "read_back" /\ pc'[w] = "idle" /\ last'.kind = "Ok"
              /\ blocks[call[w].new_head].event.output_data = None)
                => /\ last'.result = Some([old_head |-> call[w].old_head,
                                           new_head |-> call[w].new_head])
                   /\ meta'[w].head = call[w].new_head
                   /\ meta'[w].last_offset = meta[w].last_offset
                   /\ meta'[w].data_slices = meta[w].data_slices
                   /\ meta'[w].last_watermark = meta[w].last_watermark
                   /\ meta'[w].last_source_state =
                         blocks[call[w].new_head].event.source_state]_vars

\* A write of a new source state alone succeeded on a dataset that holds data
\* and a watermark
C10_Witness ==
    \E w \in Writers :
        /\ last.w = w /\ last.op = "write" /\ last.kind = "Ok"
        /\ pc[w] = "idle"
        /\ LET e == blocks[last.result[1].new_head].event
           IN  /\ e.output_data = None
               /\ e.output_watermark # None
               /\ e.source_state = Some(1)
        /\ meta[w].last_offset # None
        /\ meta[w].last_source_state = Some(1)

\* The event times of the rows of a batch, the fallback standing in where the
\* batch has no event-time column
BatchEventTimes(df, opts) ==
    {IF df.rows[i].event_time = None THEN opts.source_event_time
     ELSE df.rows[i].event_time[1] : i \in 1..Len(df.rows)}

HasSchemaBlock(h) ==
    \E i \in 1..Len(ChainTo(h)) : ChainTo(h)[i].event.type = "SetDataSchema"

\* C11: on a chain without a SetDataSchema block, a write of a non-empty batch
\* of n rows first appends a SetDataSchema block after the old head, staged
\* with the interval [0, n-1] and the maximum event time of the batch as
\* watermark when there is no prior data; when it succeeds, the chain from the
\* old head to the new head is that SetDataSchema block and then the AddData
\* block carrying the staged interval and watermark.
C11_FirstWriteCommitsSchemaThenData ==
    [][\A w \in Writers :
          /\ (WriteStepOf(w) /\ meta[w].head = head /\ ~HasSchemaBlock(head))
                => \A c \in {x \in DataCalls : x.new_data[1].rows # <<>>} :
                      (c.fault = "none" /\ Write(w, c.new_data, c.opts, c.fault))
                         => /\ pc'[w] = "commit_data"
                            /\ blocks' = Append(blocks,
                                   Block(head, SetDataSchema(call'[w].staged.output_schema[1])))
                            /\ head' = Len(blocks) + 1
                            /\ call'[w].old_head = head
                            /\ meta[w].last_offset = None
                                  => call'[w].staged.add_data.output_data =
                                        Some([start |-> 0,
                                              end |-> Len(c.new_data[1].rows) - 1])
                            /\ meta[w].last_watermark = None
                                  => call'[w].staged.add_data.output_watermark =
                                        Some(SetMax(BatchEventTimes(c.new_data[1], c.opts)))
          /\ (pc[w] = "commit_data" /\ pc'[w] = "read_back")
                => /\ blocks' = Append(blocks,
                          Block(head, AddData(call[w].staged.add_data,
                                              blocks'[head'].event.output_data, None)))
                   /\ blocks[head].event.type = "SetDataSchema"
                   /\ blocks[head].prev_block_hash = call[w].old_head
                   /\ call[w].staged.add_data.output_data # None
                         => /\ CarriesData(blocks'[head'])
                            /\ IntervalOf(blocks'[head']) = call[w].staged.add_data.output_data[1]
                   /\ call'[w].old_head = call[w].old_head
                   /\ call'[w].new_head = head'
          /\ (pc[w] = "read_back" /\ pc'[w] = "idle" /\ last'.kind = "Ok"
                /\ ~HasSchemaBlock(call[w].old_head) /\ CarriesData(blocks[call[w].new_head]))
                => /\ last'.result = Some([old_head |-> call[w].old_head,
                                           new_head |-> call[w].new_head])
                   /\ ChainTo(call[w].new_head) =
                         ChainTo(call[w].old_head)
                            \o <<blocks[blocks[call[w].new_head].prev_block_hash],
                                 blocks[call[w].new_head]>>
                   /\ blocks[blocks[call[w].new_head].prev_block_hash].event.type
                         = "SetDataSchema"]_vars

\* The first write of two rows has succeeded: Seed, SetDataSchema, AddData [0, 1]
C11_Witness ==
    \E w \in Writers :
        /\ last = Outcome(w, "write", "Ok", Some([old_head |-> 1, new_head |-> 3]))
        /\ blocks[2].event.type = "SetDataSchema" /\ blocks[2].prev_block_hash = 1
        /\ blocks[3].prev_block_hash = 2
        /\ CarriesData(blocks[3])
        /\ IntervalOf(blocks[3]) = [start |-> 0, end |-> 1]
        /\ blocks[3].event.output_watermark = Some(2)
        /\ head = 3

SchemaBlocks == {h \in 1..Len(blocks) : blocks[h].event.type = "SetDataSchema"}

\* C12: at most one SetDataSchema block is ever appended to the chain, by one
\* writer or by two; once the chain holds one, a writer appends AddData blocks
\* only, and the schema a writer holds is the one of that block.
C12_SingleSchemaBlock ==
    [][/\ Cardinality(SchemaBlocks) <= 1
       /\ Cardinality(SchemaBlocks') <= 1
       /\ \A w \in Writers :
             /\ (Appended(w) /\ SchemaBlocks # {})
                   => /\ blocks'[head'].event.type = "AddData"
                      /\ SchemaBlocks' = SchemaBlocks
             /\ (meta[w].schema # None)
                   => \E h \in SchemaBlocks : blocks[h].event.schema = meta[w].schema[1]]_vars

\* Two slices were committed after the one SetDataSchema block
C12_Witness ==
    /\ Cardinality(SchemaBlocks) = 1
    /\ Len(DataBlocks) = 2
    /\ Len(Chain) = 4

\* The schema of a batch after normalisation and annotation with the system
\* columns
AnnotatedSchema(m, df) ==
    with_system_columns(m, [schema |-> normalize_raw_result(df).schema, rows |-> <<>>],
                        1, 0).schema

InputSchemas == {GoodSchema, NoEventTimeSchema, CollidingSchema, DateSchema}

\* For each input schema: its annotated schema under the default vocabulary
\* (the only one the chains explored resolve to) and the calls, without an
\* injected fault, that submit a batch of it
CallsBySchema ==
    {[annotated |-> AnnotatedSchema([vocab |-> DefaultVocab],
                                    [schema |-> sch, rows |-> <<>>]),
      calls |-> {c \in DataCalls : c.new_data[1].schema = sch /\ c.fault = "none"}] :
        sch \in InputSchemas}

C14_CancelKeepsProjection ==
    [][\A w \in {Stager} :
          (pc[w] # "idle" /\ pc'[w] = "idle" /\ last'.kind = "Cancelled")
             => /\ meta'[w].head = call[w].old_head
                /\ meta'[w].schema # None => HasSchemaBlock(call[w].old_head)]_vars

\* ------------------------------------------------------------------ the builder
\* What meta[w] is while no writer w exists
Unprojected == [head |-> NoHash]

SourceNames == {None, Some("src")}

\* Mutant of build: a builder without metadata state yields a writer all the same
build_Unchecked(metadata_state) ==
    [kind |-> "Ok",
     meta |-> IF metadata_state = None THEN Unprojected ELSE metadata_state[1]]

\* DataWriterDataFusionBuilder::build: the writer's state, or the panic
build(metadata_state) ==
    IF metadata_state = None THEN [kind |-> "Panic"]
    ELSE [kind |-> "Ok", meta |-> metadata_state[1]]

\* DataWriterDataFusion::builder
BuilderNew(w) ==
    /\ pc[w] = "none"
    /\ pc' = [pc EXCEPT ![w] = "builder"]
    /\ call' = [call EXCEPT ![w] = [op |-> "builder", metadata_state |-> None]]
    /\ UNCHANGED <<blocks, head, dataRepo, meta, held, last>>
    /\ UNCHANGED apart

\* DataWriterDataFusionBuilder::with_metadata_state, given the state of the head
BuilderWithState(w) ==
    /\ pc[w] = "builder"
    /\ call' = [call EXCEPT ![w].metadata_state = Some(Projection(blocks, head))]
    /\ UNCHANGED <<blocks, head, dataRepo, meta, held, pc, last>>
    /\ UNCHANGED apart

\* DataWriterDataFusionBuilder::with_metadata_state_scanned: on an error the
\* builder, moved into the call, is gone
BuilderScan(w, source_name) ==
    /\ pc[w] = "builder"
    /\ LET r == with_metadata_state_scanned(blocks, head, source_name)
       IN  IF r.result = "Ok"
           THEN /\ call' = [call EXCEPT ![w].metadata_state = r.state]
                /\ UNCHANGED <<pc, last>>
           ELSE /\ pc' = [pc EXCEPT ![w] = "none"]
                /\ call' = [call EXCEPT ![w] = NoCall]
                /\ last' = Outcome(w, "scan", r.result, None)
    /\ UNCHANGED <<blocks, head, dataRepo, meta, held>>
    /\ UNCHANGED apart

\* DataWriterDataFusionBuilder::build
BuilderBuild(w) ==
    /\ pc[w] = "builder"
    /\ LET r == build(call[w].metadata_state)
       IN  IF r.kind = "Ok"
           THEN /\ meta' = [meta EXCEPT ![w] = r.meta]
                /\ pc' = [pc EXCEPT ![w] = "idle"]
           ELSE /\ pc' = [pc EXCEPT ![w] = "none"]
                /\ UNCHANGED meta
    /\ last' = Outcome(w, "build", build(call[w].metadata_state).kind, None)
    /\ call' = [call EXCEPT ![w] = NoCall]
    /\ UNCHANGED <<blocks, head, dataRepo, held>>
    /\ UNCHANGED apart

\* The writer is dropped
Drop(w) ==
    /\ pc[w] = "idle"
    /\ pc' = [pc EXCEPT ![w] = "none"]
    /\ meta' = [meta EXCEPT ![w] = Unprojected]
    /\ UNCHANGED <<blocks, head, dataRepo, held, call, last>>
    /\ UNCHANGED apart

InitBuild ==
    /\ blocks = <<Block(NoHash, Seed)>>
    /\ head = 1
    /\ dataRepo = {}
    /\ meta = [w \in Writers |-> Unprojected]
    /\ held = [w \in Writers |-> None]
    /\ pc = [w \in Writers |-> "none"]
    /\ call = [w \in Writers |-> NoCall]
    /\ last = Outcome("", "init", "Ok", None)
    /\ ws = NoDatasets
    /\ tasks = NoTasks
    /\ configFile = NoFile
    /\ handles = NoHandles

\* The calls of write explored with built writers
BuildCalls == {c \in Calls : c.fault = "none" /\ c.opts = DefaultOpts}

\* Writers are made with the builder, used with write, and dropped
NextBuild ==
    \E w \in Writers :
        \/ BuilderNew(w)
        \/ BuilderWithState(w)
        \/ \E source_name \in SourceNames : BuilderScan(w, source_name)
        \/ BuilderBuild(w)
        \/ Drop(w)
        \/ \E c \in BuildCalls : Write(w, c.new_data, c.opts, c.fault)
        \/ \E fault \in BOOLEAN : CommitDataStep(w, fault)
        \/ \E fault \in BOOLEAN : ReadBack(w, fault)
        \/ Cancel(w)

SpecBuild == InitBuild /\ [][NextBuild]_vars

Running == {"idle", "commit_data", "read_back"}

\* C15: no writer exists without a projection: build on a builder that was
\* given no metadata state and made no successful scan panics and leaves no
\* writer, and whenever a writer exists, idle or inside a call, it holds a
\* projection of the chain.
C15_NoUnprojectedWriter ==
    /\ [](\A w \in Writers :
             /\ pc[w] \in Running
                   => meta[w] # Unprojected /\ meta[w].head \in 1..Len(blocks)
             /\ pc[w] \notin Running => meta[w] = Unprojected)
    /\ [][\A w \in Writers :
             /\ (pc[w] = "builder" /\ call[w].metadata_state = None
                   /\ pc'[w] # "builder" /\ last'.op = "build")
                   => /\ last' = Outcome(w, "build", "Panic", None)
                      /\ pc'[w] = "none"
                      /\ meta'[w] = Unprojected
             /\ Appended(w) => meta[w] # Unprojected]_vars

\* build has panicked on a builder without metadata state, while the other
\* writer, built from a scan, has committed a block
C15_Witness ==
    /\ last = Outcome("W2", "build", "Panic", None)
    /\ pc["W2"] = "none"
    /\ pc["W1"] = "idle"
    /\ meta["W1"].head = 2
    /\ head = 2

\* ------------------------------------------------------------------ writes under Ledger and Snapshot
MaxKey == 2             \* keys are 1..MaxKey
MaxValue == 2           \* values are 1..MaxValue

KeyedSchema == <<Field("k", "Int64"), Field("v", "Int64")>>

\* A raw row of KeyedSchema: the batch has no event-time column
KeyedRow(k, v) == [event_time |-> None, k |-> k, v |-> v]

KeyedRows == {KeyedRow(Some(k), Some(v)) : k \in 1..MaxKey, v \in 1..MaxValue}

\* The batches of KeyedSchema: up to MaxRows rows, keys repeated or not, and
\* one batch with a null key
KeyedFrames ==
    {[schema |-> KeyedSchema, rows |-> rows] :
        rows \in {<<>>} \cup {<<r>> : r \in KeyedRows}
                        \cup {<<r1, r2>> : r1 \in KeyedRows, r2 \in KeyedRows}}
    \cup {[schema |-> KeyedSchema, rows |-> <<KeyedRow(None, Some(1))>>]}

\* A snapshot holds one row for a key
IsSnapshot(df) ==
    \A i, j \in 1..Len(df.rows) :
        /\ df.rows[i].k # None
        /\ i # j => df.rows[i].k # df.rows[j].k

MergeStrategies == {MergeStrategyLedger(<<"k">>), MergeStrategySnapshot(<<"k">>)}

\* The calls explored under the strategies: a snapshot is written under
\* Snapshot, any batch under Ledger
MergeCalls ==
    {[strategy |-> st, new_data |-> Some(df), opts |-> DefaultOpts] :
        st \in {"Ledger", "Snapshot"}, df \in KeyedFrames}
    \ {c \in [strategy : {"Snapshot"}, new_data : {Some(df) : df \in KeyedFrames},
                opts : {DefaultOpts}] : ~IsSnapshot(c.new_data[1])}

\* The dataset has its source defined, with one of the strategies; the writers
\* are built from a scan
InitMerge ==
    /\ \E strategy \in MergeStrategies :
          blocks = <<Block(NoHash, Seed), Block(1, SetPollingSource(strategy))>>
    /\ head = 2
    /\ dataRepo = {}
    /\ meta = [w \in Writers |-> Projection(blocks, 2)]
    /\ held = [w \in Writers |-> None]
    /\ pc = [w \in Writers |-> "idle"]
    /\ call = [w \in Writers |-> NoCall]
    /\ last = Outcome("", "init", "Ok", None)
    /\ ws = NoDatasets
    /\ tasks = NoTasks
    /\ configFile = NoFile
    /\ handles = NoHandles

\* write with a batch of the kind the strategy of the writer expects
WriteUnder(w, c) ==
    /\ c.strategy = meta[w].merge_strategy.kind
    /\ Write(w, c.new_data, c.opts, "none")

NextMerge ==
    \E w \in Writers :
        \/ \E c \in MergeCalls : WriteUnder(w, c)
        \/ \E fault \in BOOLEAN : CommitDataStep(w, fault)
        \/ \E fault \in BOOLEAN : ReadBack(w, fault)
        \/ Cancel(w)

SpecMerge == InitMerge /\ [][NextMerge]_vars

\* The slices of the chain, oldest first, and their rows
Slices == [i \in 1..Len(DataBlocks) |-> DataBlocks[i].event.output_data[1].physical_hash]
ChainRows == Concat(Slices)

\* The key and the value of the rows
KV(rows) == [i \in 1..Len(rows) |-> [k |-> rows[i].k, v |-> rows[i].v]]

StrategyOfChain == blocks[2].event.merge.kind

\* The rows of the file a call stages, none when it stages no file
StagedRows(m, c) ==
    LET r == stage(m, c.new_data, c.opts, FALSE)
    IN  IF r.kind = "Ok" /\ r.staged.data_file # None THEN r.staged.data_file[1] ELSE <<>>

LedgerCalls == {c \in MergeCalls : c.strategy = "Ledger"}

\* The rows of a batch whose key is in no committed slice
UnseenRows(c) ==
    LET seen == {ChainRows[i].k : i \in 1..Len(ChainRows)}
        Unseen(r) == r.k \notin seen
    IN  SelectSeq(c.new_data[1].rows, Unseen)

\* C16: under the Ledger strategy no key of one slice is in a later slice; a
\* writer that is at the head stages, for every batch, exactly the rows of the
\* batch whose key is in no committed slice (rows of the batch that repeat a
\* key of the batch are all kept); and the slice a write commits is the file it
\* staged, committed by a writer that was at the head.
C16_LedgerUnion ==
    /\ [](StrategyOfChain = "Ledger" =>
            /\ \A i, j \in 1..Len(Slices) :
                  i < j => \A a \in 1..Len(Slices[i]) : \A b \in 1..Len(Slices[j]) :
                              Slices[i][a].k # Slices[j][b].k
            /\ \A w \in Writers :
                  (pc[w] = "idle" /\ meta[w].head = head)
                     => \A c \in LedgerCalls :
                           \A i \in 1..Len(c.new_data[1].rows) : c.new_data[1].rows[i].k # None
                              => KV(StagedRows(meta[w], c)) = KV(UnseenRows(c)))
    /\ [][StrategyOfChain = "Ledger" =>
            \A w \in Writers :
               /\ (pc[w] = "idle" /\ pc'[w] = "commit_data")
                     => /\ meta[w].head = head
                        /\ ChainRows' = ChainRows
                        /\ \E c \in LedgerCalls :
                              call'[w].staged.data_file = Some(StagedRows(meta[w], c))
               /\ (pc[w] = "idle" /\ Appended(w) /\ pc'[w] = "read_back")
                     => /\ meta[w].head = head
                        /\ \E c \in LedgerCalls :
                              ChainRows' = ChainRows \o StagedRows(meta[w], c)
               /\ (pc[w] = "commit_data" /\ Appended(w))
                     => /\ meta[w].head = head
                        /\ ChainRows' = ChainRows \o call[w].staged.data_file[1]]_vars

\* Two slices are committed under Ledger: the first holds two rows of key 1
\* (the batch repeated the key), the second a row of key 2
C16_Witness ==
    /\ StrategyOfChain = "Ledger"
    /\ Len(Slices) = 2
    /\ KV(Slices[1]) = <<[k |-> Some(1), v |-> Some(1)], [k |-> Some(1), v |-> Some(2)]>>
    /\ KV(Slices[2]) = <<[k |-> Some(2), v |-> Some(1)]>>
    /\ \E w \in Writers : pc[w] = "idle" /\ meta[w].head = head

SnapshotCalls == {c \in MergeCalls : c.strategy = "Snapshot"}

\* The rows in the order of their offsets (offsets are 0, 1, ...)
ByOffset(rows) ==
    [n \in 1..Len(rows) |-> rows[CHOOSE i \in 1..Len(rows) : rows[i].offset = n - 1]]

\* The current state the change rows describe, applied in their order: +I and
\* +U put the row of a key, -D and -U remove it
RECURSIVE ApplyOps(_)
ApplyOps(rows) ==
    IF rows = <<>> THEN {}
    ELSE LET r == rows[Len(rows)]
             before == ApplyOps(SubSeq(rows, 1, Len(rows) - 1))
             others == {x \in before : x.k # r.k}
         IN  IF r.op \in Retractions THEN others
             ELSE others \cup {[k |-> r.k, v |-> r.v]}

\* The rows of a batch, as a set
BatchRows(c) == {KV(c.new_data[1].rows)[i] : i \in 1..Len(c.new_data[1].rows)}

MaxTasks == 2           \* task ids are 1..MaxTasks

TaskIDs == 1..MaxTasks
TaskOutcomes == {"Success", "Cancelled", "Failed"}

\* ts::TaskStatus: Queued, Running, Finished(outcome)
TaskStatuses ==
    {[kind |-> "Queued"], [kind |-> "Running"]}
        \cup {[kind |-> "Finished", outcome |-> o] : o \in TaskOutcomes}

\* ts::TaskState, without the logical plan, which Task::new drops
TaskStates ==
    {[task_id |-> id, status |-> st, cancellation_requested |-> cr] :
        id \in TaskIDs, st \in TaskStatuses, cr \in BOOLEAN}

\* status.into(): the GraphQL enum has no payload
TaskStatus_into(status) ==
    CASE status.kind = "Queued" -> "QUEUED"
      [] status.kind = "Running" -> "RUNNING"
      [] status.kind = "Finished" -> "FINISHED"

\* (*outcome).into()
TaskOutcome_into(outcome) ==
    CASE outcome = "Success" -> "SUCCESS"
      [] outcome = "Cancelled" -> "CANCELLED"
      [] outcome = "Failed" -> "FAILED"

\* Mutant of Task_new: the outcome of the status is not taken out
Task_new_NoOutcome(state) ==
    [task_id |-> state.task_id,
     status |-> TaskStatus_into(state.status),
     cancellation_requested |-> state.cancellation_requested,
     outcome |-> None]

\* Task::new: "Un-nest enum into a field"
Task_new(state) ==
    [task_id |-> state.task_id,
     status |-> TaskStatus_into(state.status),
     cancellation_requested |-> state.cancellation_requested,
     outcome |-> IF state.status.kind \in {"Queued", "Running"} THEN None
                 ELSE Some(TaskOutcome_into(state.status.outcome))]

\* The fields of a Task as the resolvers return them
TaskFields(task) ==
    [taskId |-> task.task_id,
     status |-> task.status,
     cancellationRequested |-> task.cancellation_requested,
     outcome |-> task.outcome]

\* The task service holds any state for a task id, or none
InitTask ==
    /\ tasks \in [TaskIDs -> {None} \cup {Some(t) : t \in TaskStates}]
    /\ \A id \in TaskIDs : tasks[id] # None => tasks[id][1].task_id = id
    /\ configFile = NoFile
    /\ handles = NoHandles
    /\ ws = NoDatasets
    /\ blocks = <<Block(NoHash, Seed)>>
    /\ head = 1
    /\ dataRepo = {}
    /\ meta = [w \in Writers |-> Unprojected]
    /\ held = [w \in Writers |-> None]
    /\ pc = [w \in Writers |-> "none"]
    /\ call = [w \in Writers |-> NoCall]
    /\ last = Outcome("", "init", "Ok", None)

\* The query tasks { getTask(taskId) }: null when the service has no such task
GetTask(id) ==
    /\ last' = Outcome("", "getTask", "Ok",
                       [taskId |-> id,
                        getTask |-> IF tasks[id] = None THEN None
                                    ELSE Some(TaskFields(Task_new(tasks[id][1])))])
    /\ UNCHANGED <<ws, tasks, aliasVars>>
    /\ UNCHANGED writerVars

\* The query tasks { listTasksByDataset }: the tasks the service streams
ListTasksByDataset ==
    /\ last' = Outcome("", "listTasksByDataset", "Ok",
                       [nodes |-> [id \in {x \in TaskIDs : tasks[x] # None} |->
                                      TaskFields(Task_new(tasks[id][1]))]])
    /\ UNCHANGED <<ws, tasks, aliasVars>>
    /\ UNCHANGED writerVars

NextTask ==
    \/ \E id \in TaskIDs : GetTask(id)
    \/ ListTasksByDataset

SpecTask == InitTask /\ [][NextTask]_vars

\* The outcome of a task state, as GraphQL has it
OutcomeOf(state) ==
    IF state.status.kind = "Finished" THEN Some(TaskOutcome_into(state.status.outcome))
    ELSE None

\* C20: the outcome of the Task returned for a task state is present exactly
\* when its status is Finished and is then the outcome the status of the state
\* carries; for a Queued or Running state it is null.  In getTask and in every
\* node of listTasksByDataset.
C20_OutcomeIffFinished ==
    /\ last.op = "getTask" /\ last.result.getTask # None
          => LET t == last.result.getTask[1]
                 state == tasks[last.result.taskId][1]
             IN  /\ t.outcome # None <=> t.status = "FINISHED"
                 /\ t.status = "FINISHED" <=> state.status.kind = "Finished"
                 /\ t.outcome = OutcomeOf(state)
                 /\ state.status.kind \in {"Queued", "Running"} => t.outcome = None
    /\ last.op = "listTasksByDataset"
          => \A id \in DOMAIN last.result.nodes :
                LET t == last.result.nodes[id]
                IN  /\ t.outcome # None <=> t.status = "FINISHED"
                    /\ t.outcome = OutcomeOf(tasks[id][1])

\* getTask has returned a finished task with its outcome, while the other task
\* of the service is queued
C20_Witness ==
    /\ last.op = "getTask"
    /\ last.result.getTask =
          Some([taskId |-> 1, status |-> "FINISHED", cancellationRequested |-> FALSE,
                outcome |-> Some("SUCCESS")])
    /\ tasks[2] # None
    /\ tasks[2][1].status.kind = "Queued"

\* ------------------------------------------------------------------ sync between the workspace and a repository
MaxSyncBlocks == 5      \* blocks made in the workspace, over all datasets

Locals == {"foo", "bar"}
Remote == "remote"

\* A dataset: its chain of block hashes, oldest first, the files of its data
\* directory and the directories of its checkpoints directory
HeadOf(ds) == IF ds = None THEN None ELSE Some(ds[1].chain[Len(ds[1].chain)])
BlocksOf(ds) == IF ds = None THEN {} ELSE {ds[1].chain[i] : i \in 1..Len(ds[1].chain)}

AllBlocks == UNION {BlocksOf(ws[d]) : d \in Locals \cup {Remote}}

\* A block hash no dataset has: hashes are told apart by their order of creation
FreshBlock == Cardinality(AllBlocks) + 1

\* dataset_reg.add_dataset(snapshot): Seed and SetPollingSource
AddDataset(d) ==
    /\ ws[d] = None
    /\ FreshBlock + 1 <= MaxSyncBlocks
    /\ ws' = [ws EXCEPT ![d] = Some([chain |-> <<FreshBlock, FreshBlock + 1>>,
                                     data |-> {}, checkpoints |-> {}])]
    /\ UNCHANGED <<tasks, last, aliasVars>>
    /\ UNCHANGED writerVars

\* get_metadata_chain(d).append(add_data block on the head), after
\* create_fake_data_file and before the checkpoint of the block is written
AppendAddData(d, with_data, with_checkpoint) ==
    /\ ws[d] # None
    /\ FreshBlock <= MaxSyncBlocks
    /\ ws' = [ws EXCEPT ![d] =
                Some([chain |-> Append(ws[d][1].chain, FreshBlock),
                      data |-> IF with_data THEN ws[d][1].data \cup {FreshBlock}
                               ELSE ws[d][1].data,
                      checkpoints |-> IF with_checkpoint
                                      THEN ws[d][1].checkpoints \cup {FreshBlock}
                                      ELSE ws[d][1].checkpoints])]
    /\ UNCHANGED <<tasks, last, aliasVars>>
    /\ UNCHANGED writerVars

\* assert_in_sync: the same block files, data files, checkpoint files and head
InSync(ds1, ds2) ==
    /\ BlocksOf(ds1) = BlocksOf(ds2)
    /\ ds1[1].data = ds2[1].data
    /\ ds1[1].checkpoints = ds2[1].checkpoints
    /\ HeadOf(ds1) = HeadOf(ds2)

\* Mutant of sync: the destination takes the chain of the source whatever its
\* own head is
sync_NoAncestorCheck(src, dst) ==
    IF HeadOf(dst) = HeadOf(src) THEN [kind |-> "UpToDate", result |-> None, dst |-> dst]
    ELSE [kind |-> "Updated",
          result |-> Some([old_head |-> HeadOf(dst), new_head |-> HeadOf(src)[1],
                           num_blocks |-> Cardinality(BlocksOf(src) \ BlocksOf(dst))]),
          dst |-> src]

\* Mutant of sync: the checkpoints are not transferred
sync_NoCheckpoints(src, dst) ==
    IF HeadOf(dst) = HeadOf(src) THEN [kind |-> "UpToDate", result |-> None, dst |-> dst]
    ELSE IF dst # None /\ HeadOf(dst)[1] \notin BlocksOf(src)
    THEN [kind |-> "DatasetsDiverged", result |-> None, dst |-> dst]
    ELSE [kind |-> "Updated",
          result |-> Some([old_head |-> HeadOf(dst), new_head |-> HeadOf(src)[1],
                           num_blocks |-> Cardinality(BlocksOf(src) \ BlocksOf(dst))]),
          dst |-> Some([chain |-> src[1].chain,
                        data |-> (IF dst = None THEN {} ELSE dst[1].data) \cup src[1].data,
                        checkpoints |-> IF dst = None THEN {} ELSE dst[1].checkpoints])]

\* The transfer from an existing source dataset to the destination: up to
\* date, diverged, or the blocks the destination lacks with the data files and
\* the checkpoints
sync(src, dst) ==
    IF HeadOf(dst) = HeadOf(src) THEN [kind |-> "UpToDate", result |-> None, dst |-> dst]
    ELSE IF dst # None /\ HeadOf(dst)[1] \notin BlocksOf(src)
    THEN [kind |-> "DatasetsDiverged", result |-> None, dst |-> dst]
    ELSE [kind |-> "Updated",
          result |-> Some([old_head |-> HeadOf(dst), new_head |-> HeadOf(src)[1],
                           num_blocks |-> Cardinality(BlocksOf(src) \ BlocksOf(dst))]),
          dst |-> Some([chain |-> src[1].chain,
                        data |-> (IF dst = None THEN {} ELSE dst[1].data) \cup src[1].data,
                        checkpoints |-> (IF dst = None THEN {} ELSE dst[1].checkpoints)
                                            \cup src[1].checkpoints])]

\* SyncError::DatasetsDiverged { local_head, remote_head }
DatasetsDiverged(l) ==
    Some([local_head |-> HeadOf(ws[l])[1], remote_head |-> HeadOf(ws[Remote])[1]])

\* sync_svc.sync_to(local, remote)
SyncTo(l) ==
    /\ IF ws[l] = None
       THEN /\ last' = Outcome(l, "sync_to", "LocalDatasetDoesNotExist", None)
            /\ UNCHANGED ws
       ELSE LET r == sync(ws[l], ws[Remote])
            IN  /\ ws' = [ws EXCEPT ![Remote] = r.dst]
                /\ last' = Outcome(l, "sync_to", r.kind,
                                   IF r.kind = "DatasetsDiverged" THEN DatasetsDiverged(l)
                                   ELSE r.result)
    /\ UNCHANGED <<tasks, aliasVars>>
    /\ UNCHANGED writerVars

\* sync_svc.sync_from(remote, local)
SyncFrom(l) ==
    /\ IF ws[Remote] = None
       THEN /\ last' = Outcome(l, "sync_from", "RemoteDatasetDoesNotExist", None)
            /\ UNCHANGED ws
       ELSE LET r == sync(ws[Remote], ws[l])
            IN  /\ ws' = [ws EXCEPT ![l] = r.dst]
                /\ last' = Outcome(l, "sync_from", r.kind,
                                   IF r.kind = "DatasetsDiverged" THEN DatasetsDiverged(l)
                                   ELSE r.result)
    /\ UNCHANGED <<tasks, aliasVars>>
    /\ UNCHANGED writerVars

\* The workspace is empty and the repository holds no dataset
InitSync ==
    /\ ws = NoDatasets
    /\ tasks = NoTasks
    /\ configFile = NoFile
    /\ handles = NoHandles
    /\ blocks = <<Block(NoHash, Seed)>>
    /\ head = 1
    /\ dataRepo = {}
    /\ meta = [w \in Writers |-> Unprojected]
    /\ held = [w \in Writers |-> None]
    /\ pc = [w \in Writers |-> "none"]
    /\ call = [w \in Writers |-> NoCall]
    /\ last = Outcome("", "init", "Ok", None)

NextSync ==
    \E l \in Locals :
        \/ AddDataset(l)
        \/ \E f \in {<<TRUE, FALSE>>, <<TRUE, TRUE>>, <<FALSE, FALSE>>} :
              AppendAddData(l, f[1], f[2])
        \/ SyncTo(l)
        \/ SyncFrom(l)

SpecSync == InitSync /\ [][NextSync]_vars

\* A step of sync_to or sync_from of local dataset l: they alone report
SyncStep(l) == last' # last /\ last'.w = l /\ last'.op \in {"sync_to", "sync_from"}

\* The source and the destination of the sync that has just run
SourceOf(l) == IF last'.op = "sync_to" THEN ws[l] ELSE ws[Remote]
DestOf(l) == IF last'.op = "sync_to" THEN ws[Remote] ELSE ws[l]
DestAfter(l) == IF last'.op = "sync_to" THEN ws'[Remote] ELSE ws'[l]

\* The head of the destination is not among the source's head and its ancestors
NotAncestor(src, dst) == src # None /\ dst # None /\ HeadOf(dst)[1] \notin BlocksOf(src)

\* C18: sync_to and sync_from end with DatasetsDiverged, carrying the head of
\* the local dataset and the head of the remote one, and leave every dataset
\* as it was, whenever the head of the destination is neither the head of the
\* source nor one of its ancestors, and only then.
C18_DivergedRejected ==
    [][\A l \in Locals :
          SyncStep(l) =>
             /\ NotAncestor(SourceOf(l), DestOf(l))
                   => /\ last'.kind = "DatasetsDiverged"
                      /\ last'.result = Some([local_head |-> HeadOf(ws[l])[1],
                                              remote_head |-> HeadOf(ws[Remote])[1]])
                      /\ ws' = ws
             /\ last'.kind = "DatasetsDiverged"
                   => NotAncestor(SourceOf(l), DestOf(l))]_vars

\* foo was pushed and pulled into bar, bar got one more block and was pushed;
\* the push from foo has been rejected with the two heads
C18_Witness ==
    /\ last = Outcome("foo", "sync_to", "DatasetsDiverged",
                      Some([local_head |-> 4, remote_head |-> 5]))
    /\ ws["foo"][1].chain = <<1, 2, 3, 4>>
    /\ ws["bar"][1].chain = <<1, 2, 3, 4, 5>>
    /\ ws[Remote] = ws["bar"]

\* C19: a sync that transfers reports Updated with the head the destination
\* had, the head it has now (the source's) and the number of blocks it gained;
\* a sync between datasets of the same head reports UpToDate and changes
\* nothing; and a sync_from into B from a remote that is in sync with A (A was
\* pushed to it) leaves A and B with the same block files, data files,
\* checkpoint files and head.
C19_PushPullInSync ==
    [][\A l \in Locals :
          SyncStep(l) =>
             /\ last'.kind = "Updated"
                   => /\ last'.result =
                            Some([old_head |-> HeadOf(DestOf(l)),
                                  new_head |-> HeadOf(SourceOf(l))[1],
                                  num_blocks |-> Cardinality(BlocksOf(DestAfter(l))
                                                                \ BlocksOf(DestOf(l)))])
                      /\ last'.result[1].num_blocks > 0
                      /\ InSync(DestAfter(l), SourceOf(l))
             /\ (SourceOf(l) # None /\ HeadOf(SourceOf(l)) = HeadOf(DestOf(l)))
                   => last'.kind = "UpToDate" /\ ws' = ws
             /\ last'.kind = "UpToDate" => ws' = ws
             /\ (last'.op = "sync_from" /\ last'.kind \in {"Updated", "UpToDate"})
                   => \A a \in Locals :
                         (ws[a] # None /\ InSync(ws[a], ws[Remote]))
                            => InSync(ws'[a], ws'[l])]_vars

\* foo, with two more blocks, their data files and a checkpoint, was pushed;
\* the pull into bar has reported the two blocks and the datasets are in sync
C19_Witness ==
    /\ last = Outcome("bar", "sync_from", "Updated",
                      Some([old_head |-> Some(2), new_head |-> 4, num_blocks |-> 2]))
    /\ ws["foo"] = Some([chain |-> <<1, 2, 3, 4>>, data |-> {3, 4}, checkpoints |-> {4}])
    /\ InSync(ws["foo"], ws["bar"])
    /\ InSync(ws["foo"], ws[Remote])

\* ------------------------------------------------------------------ chains given to the scan
SetWatermark(output_watermark) ==
    [type |-> "SetWatermark", output_watermark |-> output_watermark]

AddPushSource(source_name, merge_strategy) ==
    [type |-> "AddPushSource", source_name |-> source_name, merge |-> merge_strategy]

SetVocab(vocab) == [type |-> "SetVocab", vocab |-> vocab]

\* The longest chain scanned, Seed not counted
MaxScanEvents == 3

\* The events a scanned chain is made of
ScanKinds ==
    {"SetDataSchema", "AddData", "AddDataNoData", "SetWatermark", "SetPollingSource",
     "AddPushSource_src", "AddPushSource_other", "AddPushSource_unnamed", "SetVocab"}

\* What the block at position i carries, so that blocks of one type differ
ColumnNames == <<"offset", "system_time", "event_time", "v", "w", "x", "y">>
SchemaAt(i) == [j \in 1..(i + 1) |-> Field(ColumnNames[j], "Int64")]
EventTimeNames == <<"event_time", "date", "ts", "when", "at", "on">>
VocabAt(i) == [DefaultVocab EXCEPT !.event_time_column = EventTimeNames[i]]
MergeAt(i) ==
    CASE i = 2 -> MergeStrategyAppend
      [] i = 3 -> MergeStrategyLedger(<<"k">>)
      [] OTHER -> MergeStrategySnapshot(<<"k">>)

\* The event of a kind at position i of a chain with n data slices before it
EventOfKind(kind, i, n) ==
    CASE kind = "SetDataSchema" -> SetDataSchema(SchemaAt(i))
      [] kind = "AddData" ->
            AddData([input_checkpoint |-> None,
                     output_watermark |-> Some(i),
                     source_state |-> Some(i)],
                    Some([interval |-> [start |-> n, end |-> n],
                          physical_hash |-> <<[offset |-> n, event_time |-> i]>>]),
                    Some([physical_hash |-> i]))
      [] kind = "AddDataNoData" ->
            AddData([input_checkpoint |-> None,
                     output_watermark |-> Some(i),
                     source_state |-> Some(i)],
                    None, None)
      [] kind = "SetWatermark" -> SetWatermark(i)
      [] kind = "SetPollingSource" -> SetPollingSource(MergeAt(i))
      [] kind = "AddPushSource_src" -> AddPushSource(Some("src"), MergeAt(i))
      [] kind = "AddPushSource_other" -> AddPushSource(Some("other"), MergeAt(i))
      [] kind = "AddPushSource_unnamed" -> AddPushSource(None, MergeAt(i))
      [] OTHER -> SetVocab(VocabAt(i))

\* The chain Seed, kinds[1], kinds[2], ... with every block upon the one before
RECURSIVE ChainOfKinds(_)
ChainOfKinds(kinds) ==
    IF kinds = <<>> THEN <<Block(NoHash, Seed)>>
    ELSE LET before == ChainOfKinds(SubSeq(kinds, 1, Len(kinds) - 1))
             IsData(b) == b.event.type = "AddData" /\ b.event.output_data # None
             n == Len(SelectSeq(before, IsData))
         IN  Append(before,
                    Block(Len(before), EventOfKind(kinds[Len(kinds)], Len(before) + 1, n)))

ScanChains ==
    {ChainOfKinds(kinds) : kinds \in UNION {[1..n -> ScanKinds] : n \in 0..MaxScanEvents}}

\* Any chain is there before a builder is made
InitScan ==
    /\ blocks \in ScanChains
    /\ head = Len(blocks)
    /\ dataRepo = {}
    /\ meta = [w \in Writers |-> Unprojected]
    /\ held = [w \in Writers |-> None]
    /\ pc = [w \in Writers |-> "none"]
    /\ call = [w \in Writers |-> NoCall]
    /\ last = Outcome("", "init", "Ok", None)
    /\ ws = NoDatasets
    /\ tasks = NoTasks
    /\ configFile = NoFile
    /\ handles = NoHandles

\* One caller makes a builder, scans for a source or for none, builds and drops
NextScan ==
    \/ BuilderNew(Stager)
    \/ \E source_name \in SourceNames : BuilderScan(Stager, source_name)
    \/ BuilderBuild(Stager)
    \/ Drop(Stager)

SpecScan == InitScan /\ [][NextScan]_vars

\* The scan of the chain for a source name, and what it yields
Scanned(source_name) == with_metadata_state_scanned(blocks, head, source_name)
ScannedState(source_name) == Scanned(source_name).state[1]

\* The state the builder holds after a scan, while it holds one
BuilderHolds ==
    pc[Stager] = "builder" /\ call[Stager].metadata_state # None

\* The events of the chain, oldest first, and those of one type
ChainEvents == [i \in 1..Len(Chain) |-> Chain[i].event]
EventsOfType(type) == LET Is(e) == e.type = type IN SelectSeq(ChainEvents, Is)
Newest(events) == events[Len(events)]

\* C21 (the claim, which the code violates): the state a metadata scan yields
\* has data_slices oldest first: the slice of an older data-carrying AddData
\* block precedes the slice of a newer one.
C21_ScannedSlicesOldestFirst ==
    BuilderHolds => call[Stager].metadata_state[1].data_slices = Slices

\* C22 (the claim, which the code violates): whenever a writer made by a scan
\* is idle at the head, after any number of successful commits, stage reads
\* the committed slices oldest to newest, each exactly once, and gives the
\* merge strategy no previous data exactly when no slice was committed.
C22_PreviousReadOldestToNewest ==
    (pc[Stager] = "idle" /\ meta[Stager].head = head)
        => get_all_previous_data(meta[Stager].data_slices)
              = IF Slices = <<>> THEN None ELSE Some(Concat(Slices))

\* C23 (the claim, which the code violates): the state a metadata scan yields
\* has the vocabulary of the SetVocab block nearest to head, and the default
\* vocabulary when the chain has no SetVocab block.
C23_NewestVocabWins ==
    BuilderHolds
        => call[Stager].metadata_state[1].vocab
              = IF EventsOfType("SetVocab") = <<>> THEN DefaultVocab
                ELSE Newest(EventsOfType("SetVocab")).vocab

\* The blocks that carry a watermark, oldest first, and the watermark of one
CarriesWatermark(b) == b.event.type \in {"AddData", "SetWatermark"}
WatermarkBlocks == SelectSeq(Chain, CarriesWatermark)
WatermarkOf(e) ==
    IF e.type = "AddData" THEN e.output_watermark ELSE Some(e.output_watermark)

CheckpointOf(e) ==
    IF e.output_checkpoint = None THEN None ELSE Some(e.output_checkpoint[1].physical_hash)

\* C24: the state a metadata scan yields holds the newest occurrence of each
\* piece of state: the schema of the newest SetDataSchema block, the interval
\* end of the newest data-carrying AddData block, the watermark of the newest
\* block among AddData and SetWatermark blocks, the checkpoint and the source
\* state of the newest AddData block; each is None when there is no such block.
C24_NewestStateCollected ==
    BuilderHolds
        => LET s == call[Stager].metadata_state[1]
           IN  /\ s.schema = IF EventsOfType("SetDataSchema") = <<>> THEN None
                             ELSE Some(Newest(EventsOfType("SetDataSchema")).schema)
               /\ s.last_offset = IF DataBlocks = <<>> THEN None
                                  ELSE Some(IntervalOf(Newest(DataBlocks)).end)
               /\ s.last_watermark = IF WatermarkBlocks = <<>> THEN None
                                     ELSE WatermarkOf(Newest(WatermarkBlocks).event)
               /\ s.last_checkpoint = IF AddDataBlocks = <<>> THEN None
                                      ELSE CheckpointOf(Newest(AddDataBlocks).event)
               /\ s.last_source_state = IF AddDataBlocks = <<>> THEN None
                                        ELSE Newest(AddDataBlocks).event.source_state

\* A scanned chain in which an AddData block with data and a checkpoint is
\* followed by one without either and by a SetWatermark block
C24_Witness ==
    /\ BuilderHolds
    /\ Len(DataBlocks) = 1
    /\ Len(AddDataBlocks) = 2
    /\ Newest(Chain).event.type = "SetWatermark"
    /\ call[Stager].metadata_state[1].last_offset = Some(0)
    /\ call[Stager].metadata_state[1].last_watermark = Some(4)
    /\ call[Stager].metadata_state[1].last_checkpoint = None
    /\ call[Stager].metadata_state[1].last_source_state = Some(3)

\* Where the chain has its polling sources and its push sources without a name
PollingAt == {i \in 1..Len(Chain) : Chain[i].event.type = "SetPollingSource"}
UnnamedPushAt ==
    {i \in 1..Len(Chain) :
        Chain[i].event.type = "AddPushSource" /\ Chain[i].event.source_name = None}

\* A scan for a name fails on a chain with a polling source
NamedScanFails ==
    \A source_name \in SourceNames \ {None} :
        (BuilderScan(Stager, source_name) /\ PollingAt # {})
            => /\ last'.op = "scan" /\ last'.kind = "SourceNotFound"
               /\ pc'[Stager] = "none"

\* C25 (as stated): a scan for a push-source name fails with SourceNotFound
\* whenever the chain has a SetPollingSource block, also with a matching
\* AddPushSource block nearer to head; a scan for no name adopts the newest
\* SetPollingSource block as the source event.
C25_PollingSourceAsStated ==
    [][/\ NamedScanFails
       /\ (BuilderScan(Stager, None) /\ PollingAt # {})
             => call'[Stager].metadata_state[1].source_event
                   = Some(Chain[SetMax(PollingAt)].event)]_vars

\* C25 (amended): a scan for a push-source name fails with SourceNotFound
\* whenever the chain has a SetPollingSource block, also with a matching
\* AddPushSource block nearer to head; a scan for no name adopts the newest
\* SetPollingSource block as the source event unless an AddPushSource block
\* without a source name is nearer to head.
C25_PollingSource ==
    [][/\ NamedScanFails
       /\ (/\ BuilderScan(Stager, None)
           /\ PollingAt # {}
           /\ \A i \in UnnamedPushAt : i < SetMax(PollingAt))
             => call'[Stager].metadata_state[1].source_event
                   = Some(Chain[SetMax(PollingAt)].event)]_vars

\* A scan for "src" has failed on a chain whose head is an AddPushSource block
\* of that name, with a polling source behind it
C25_Witness ==
    /\ last.op = "scan" /\ last.kind = "SourceNotFound"
    /\ Newest(Chain).event.type = "AddPushSource"
    /\ Newest(Chain).event.source_name = Some("src")
    /\ PollingAt # {}

\* The blocks a scan for source_name may adopt as the source event: the push
\* sources of that name and, when no name is requested, the polling sources
Adoptable(source_name) ==
    {i \in 1..Len(Chain) :
        /\ Chain[i].event.type = "AddPushSource"
        /\ Chain[i].event.source_name = source_name}
    \cup (IF source_name = None THEN PollingAt ELSE {})

\* C26: a metadata scan adopts an AddPushSource block as the source event if
\* and only if its source_name equals the requested name and no source event
\* was adopted from a newer block: the source event of a successful scan is
\* the newest block that may be adopted, so an adopted push source is the
\* newest AddPushSource block of the requested name and a block with another
\* name is never adopted.
C26_PushSourceAdopted ==
    [][\A source_name \in SourceNames :
          (BuilderScan(Stager, source_name) /\ pc'[Stager] = "builder")
             => LET adopted == call'[Stager].metadata_state[1].source_event
                IN  /\ adopted = IF Adoptable(source_name) = {} THEN None
                                 ELSE Some(Chain[SetMax(Adoptable(source_name))].event)
                    /\ (adopted # None /\ adopted[1].type = "AddPushSource")
                          => adopted[1].source_name = source_name]_vars

\* The builder holds the scan for "src" of a chain with two AddPushSource
\* blocks of that name and a block of another name at the head
C26_Witness ==
    /\ BuilderHolds
    /\ Len(Chain) = 4
    /\ Chain[2].event.type = "AddPushSource" /\ Chain[2].event.source_name = Some("src")
    /\ Chain[3].event.type = "AddPushSource" /\ Chain[3].event.source_name = Some("src")
    /\ Chain[4].event.type = "AddPushSource" /\ Chain[4].event.source_name = Some("other")
    /\ call[Stager].metadata_state[1].source_event = Some(Chain[3].event)

\* C27: after a scan the merge strategy is the merge field of the adopted
\* source event when a source was found, and Append when none was found and no
\* name was requested; when a name was requested and no source was found the
\* scan fails with SourceNotFound and there is no writer state.
C27_MergeStrategyOfScan ==
    [][\A source_name \in SourceNames :
          BuilderScan(Stager, source_name)
             => /\ pc'[Stager] = "builder"
                      => LET s == call'[Stager].metadata_state[1]
                         IN  /\ s.source_event # None
                                   => s.merge_strategy = s.source_event[1].merge
                             /\ s.source_event = None
                                   => /\ source_name = None
                                      /\ s.merge_strategy = MergeStrategyAppend
                /\ (Adoptable(source_name) = {} /\ source_name = None)
                      => /\ pc'[Stager] = "builder"
                         /\ call'[Stager].metadata_state[1].merge_strategy
                               = MergeStrategyAppend
                /\ (Adoptable(source_name) = {} /\ source_name # None)
                      => /\ last'.op = "scan" /\ last'.kind = "SourceNotFound"
                         /\ pc'[Stager] = "none"
                         /\ call'[Stager] = NoCall]_vars

\* The builder holds the scan of a chain whose newest polling source, behind
\* an older one, asks for the Ledger strategy
C27_Witness ==
    /\ BuilderHolds
    /\ PollingAt = {2, 3}
    /\ call[Stager].metadata_state[1].source_event = Some(Chain[3].event)
    /\ call[Stager].metadata_state[1].merge_strategy = MergeStrategyLedger(<<"k">>)

\* The rows of a staged data file and the newest event time among them
EventTimesOf(file) == {file[i].event_time : i \in 1..Len(file)}

\* C28: when stage produces a data file, the staged output watermark is the
\* maximum of the writer's previous watermark and the newest event time of the
\* written rows, an absent previous watermark counting as minus infinity.
C28_StagedWatermarkIsMax ==
    [][(/\ StageStep(Stager)
        /\ last'.kind = "Ok"
        /\ held'[Stager][1].data_file # None)
          => LET prev_wm == meta[Stager].last_watermark
                 newest == SetMax(EventTimesOf(held'[Stager][1].data_file[1]))
                 new_wm == held'[Stager][1].add_data.output_watermark
             IN  /\ (prev_wm = None \/ prev_wm[1] < newest) => new_wm = Some(newest)
                 /\ (prev_wm # None /\ prev_wm[1] >= newest) => new_wm = prev_wm]_vars

\* A slice whose rows are all older than the writer's watermark is staged, and
\* the staged watermark is the writer's
C28_Witness ==
    /\ last.op = "stage" /\ last.kind = "Ok"
    /\ held[Stager] # None
    /\ held[Stager][1].data_file # None
    /\ meta[Stager].last_watermark = Some(2)
    /\ EventTimesOf(held[Stager][1].data_file[1]) = {1}
    /\ held[Stager][1].add_data.output_watermark = Some(2)

\* The batch of call c passes the validations of writer state m and the merge
\* leaves no row of it to write
WritesZeroRows(m, c) ==
    /\ c.new_data # None
    /\ c.fault = "none"
    /\ validate_input(m, c.new_data[1])
    /\ LET merged == merge(merge_strategy_for(m.merge_strategy, m.vocab),
                           get_all_previous_data(m.data_slices),
                           normalize_raw_result(c.new_data[1]))
       IN  /\ merged.kind = "Ok"
           /\ Len(merged.df.rows) = 0
           /\ validate_output_schema(
                  m, with_system_columns(m, merged.df, c.opts.source_event_time,
                                         start_offset(m)).schema)

\* C29: when a batch yields zero rows after the merge, stage fails with
\* EmptyCommit if the source state of the call equals the writer's
\* last_source_state; otherwise it returns a result with no data file whose
\* AddData has no output data, the writer's watermark and the source state of
\* the call.
C29_ZeroRowsStaged ==
    [][StageStep(Stager)
          => \A c \in DataCalls :
                (/\ WritesZeroRows(meta[Stager], c)
                 /\ Stage(Stager, c.new_data, c.opts, c.fault))
                   => IF c.opts.source_state = meta[Stager].last_source_state
                      THEN last'.kind = "EmptyCommit" /\ held' = held
                      ELSE /\ last'.kind = "Ok"
                           /\ held'[Stager][1].data_file = None
                           /\ held'[Stager][1].add_data.output_data = None
                           /\ held'[Stager][1].add_data.output_watermark
                                 = meta[Stager].last_watermark
                           /\ held'[Stager][1].add_data.source_state
                                 = c.opts.source_state]_vars

\* A batch without rows was staged by a writer with data, a watermark and no
\* source state: the result has a schema and a new source state, and no file
C29_Witness ==
    /\ last.op = "stage" /\ last.kind = "Ok"
    /\ held[Stager] # None
    /\ held[Stager][1].output_schema # None
    /\ held[Stager][1].data_file = None
    /\ held[Stager][1].add_data.output_data = None
    /\ meta[Stager].last_watermark = Some(2)
    /\ held[Stager][1].add_data.output_watermark = Some(2)
    /\ meta[Stager].last_source_state = None
    /\ held[Stager][1].add_data.source_state = Some(1)

\* C30: within a staged slice of n rows the offsets are exactly
\* start_offset .. start_offset + n - 1, each given to one row, where
\* start_offset is the writer's last_offset + 1, or 0 without prior data; a row
\* with a greater offset has no earlier event time; and the interval of the
\* staged AddData is [start_offset, start_offset + n - 1].
C30_SliceOffsets ==
    [][(/\ StageStep(Stager)
        /\ last'.kind = "Ok"
        /\ held'[Stager][1].data_file # None)
          => LET file == held'[Stager][1].data_file[1]
                 n == Len(file)
                 first == IF meta[Stager].last_offset = None THEN 0
                          ELSE meta[Stager].last_offset[1] + 1
             IN  /\ n > 0
                 /\ {file[i].offset : i \in 1..n} = first..(first + n - 1)
                 /\ \A i, j \in 1..n :
                       /\ file[i].offset = file[j].offset => i = j
                       /\ file[i].offset < file[j].offset
                             => file[i].event_time <= file[j].event_time
                 /\ held'[Stager][1].add_data.output_data
                       = Some([start |-> first, end |-> first + n - 1])]_vars

\* A batch of two rows, submitted newest first, was staged by a writer whose
\* last offset is 0: the older row has offset 1, the newer one offset 2
C30_Witness ==
    /\ last.op = "stage" /\ last.kind = "Ok"
    /\ held[Stager] # None
    /\ held[Stager][1].data_file # None
    /\ meta[Stager].last_offset = Some(0)
    /\ LET file == held[Stager][1].data_file[1]
       IN  /\ Len(file) = 2
           /\ \E i, j \in 1..2 :
                 /\ file[i].offset = 1 /\ file[i].event_time = 1
                 /\ file[j].offset = 2 /\ file[j].event_time = 2
    /\ held[Stager][1].add_data.output_data = Some([start |-> 1, end |-> 2])

\* ------------------------------------------------------------------ batches against vocabularies
\* A vocabulary that renames the three system columns
RenamedVocab ==
    [offset_column |-> "off", system_time_column |-> "sys", event_time_column |-> "ts"]

Vocabularies == {DefaultVocab, RenamedVocab}

\* The schema a dataset of vocabulary v declares for batches with an event
\* time and a value
DeclaredSchema(v) ==
    <<Field(v.offset_column, "Int64"), Field(v.system_time_column, TimestampMsUtc),
      Field(v.event_time_column, TimestampMsUtc), Field("v", "Int64")>>

\* The datasets stage is tried on: with either vocabulary, with and without a
\* declared schema
ValidateChains ==
    {<<Block(NoHash, Seed)>>,
     <<Block(NoHash, Seed), Block(1, SetVocab(RenamedVocab))>>}
    \cup {<<Block(NoHash, Seed), Block(1, SetDataSchema(DeclaredSchema(DefaultVocab)))>>,
          <<Block(NoHash, Seed), Block(1, SetVocab(RenamedVocab)),
            Block(2, SetDataSchema(DeclaredSchema(RenamedVocab)))>>}

\* The batches: a value column and at most one more column, of any name a
\* vocabulary uses and of any type
ColumnTypes == {"Int64"} \cup EventTimeTypes
VocabularyNames ==
    UNION {{v.offset_column, v.system_time_column, v.event_time_column} : v \in Vocabularies}
ValidateSchemas ==
    {<<Field("v", "Int64")>>}
    \cup {<<Field(n, t), Field("v", "Int64")>> : n \in VocabularyNames, t \in ColumnTypes}

ValidateCalls ==
    [new_data : {Some([schema |-> sch, rows |-> <<RawRow(Some(1))>>]) : sch \in ValidateSchemas},
     opts : {[source_event_time |-> 1, source_state |-> st] : st \in SourceStates},
     fault : {"none", "stage"}]

InitValidate ==
    /\ blocks \in ValidateChains
    /\ head = Len(blocks)
    /\ dataRepo = {}
    /\ meta = [w \in Writers |-> Projection(blocks, Len(blocks))]
    /\ held = [w \in Writers |-> None]
    /\ pc = [w \in Writers |-> "idle"]
    /\ call = [w \in Writers |-> NoCall]
    /\ last = Outcome("", "init", "Ok", None)
    /\ ws = NoDatasets
    /\ tasks = NoTasks
    /\ configFile = NoFile
    /\ handles = NoHandles

\* One caller stages batches and rebuilds the writer
NextValidate ==
    \/ \E c \in ValidateCalls : Stage(Stager, c.new_data, c.opts, c.fault)
    \/ Build(Stager)

SpecValidate == InitValidate /\ [][NextValidate]_vars

\* A schema has a column of a system name of vocabulary v, or an event-time
\* column that is neither a date nor a timestamp
NamedLikeSystemColumn(v, schema) ==
    \E i \in 1..Len(schema) : schema[i].name \in {v.offset_column, v.system_time_column}
BadEventTimeColumn(v, schema) ==
    \E i \in 1..Len(schema) :
        /\ schema[i].name = v.event_time_column
        /\ schema[i].type \notin {"Date32", "Date64"} \cup TimestampTypes

\* C31: stage rejects a batch with BadInputSchema before it merges or writes
\* anything (a failure of the steps after the validation never shows) exactly
\* when the batch has a column named like the vocabulary's offset or
\* system-time column, or a column named like the event-time column that is
\* neither Date32, Date64 nor a Timestamp; any other batch gets as far as the
\* merge, a batch without an event-time column among them.
C31_InputValidation ==
    [][StageStep(Stager)
          => \A c \in ValidateCalls :
                Stage(Stager, c.new_data, c.opts, c.fault)
                   => LET v == meta[Stager].vocab
                          schema == c.new_data[1].schema
                          rejected == \/ NamedLikeSystemColumn(v, schema)
                                      \/ BadEventTimeColumn(v, schema)
                      IN  /\ rejected
                                => /\ last'.kind = "BadInputSchema"
                                   /\ held' = held /\ dataRepo' = dataRepo
                          /\ (~rejected /\ c.fault = "stage") => last'.kind = "Internal"
                          /\ (~rejected /\ c.fault = "none" /\ meta[Stager].schema = None)
                                => last'.kind = "Ok" /\ held'[Stager] # None
                          /\ (~rejected /\ c.fault = "none"
                                /\ ~HasColumn(schema, v.event_time_column)
                                /\ meta[Stager].schema = None)
                                => HasColumn(held'[Stager][1].output_schema[1],
                                             v.event_time_column)]_vars

\* Under the renamed vocabulary a batch with a column "offset" was staged, and
\* a batch was rejected while the writer held that result
C31_Witness ==
    /\ meta[Stager].vocab = RenamedVocab
    /\ last.op = "stage" /\ last.kind = "BadInputSchema"
    /\ held[Stager] # None
    /\ HasColumn(held[Stager][1].output_schema[1], "offset")
    /\ HasColumn(held[Stager][1].output_schema[1], "off")

\* C32: after every successful commit of a writer that has the dataset to
\* itself, the writer's head is the chain's head and the returned new_head,
\* its last_offset is the interval end of the newest data-carrying AddData
\* block, data_slices has grown by the block's slice if the block carries data
\* and not at all otherwise, and last_watermark and last_source_state are
\* those of the block just committed.
C32_ProjectionInStep ==
    [][(pc[Stager] = "read_back" /\ pc'[Stager] = "idle" /\ last'.kind = "Ok")
          => LET e == blocks[head].event
                 before == meta[Stager]
                 after == meta'[Stager]
             IN  /\ after.head = head' /\ last'.result[1].new_head = head'
                 /\ e.type = "AddData"
                 /\ after.last_offset = IF DataBlocks = <<>> THEN None
                                        ELSE Some(IntervalOf(Newest(DataBlocks)).end)
                 /\ after.data_slices =
                       IF e.output_data # None
                       THEN Append(before.data_slices, e.output_data[1].physical_hash)
                       ELSE before.data_slices
                 /\ after.last_watermark = e.output_watermark
                 /\ after.last_source_state = e.source_state]_vars

\* The writer has committed a block without data, carrying a source state,
\* after a block with data
C32_Witness ==
    /\ JustCommitted(Stager)
    /\ Len(AddDataBlocks) = 2
    /\ CarriesData(AddDataBlocks[1]) /\ ~CarriesData(AddDataBlocks[2])
    /\ meta[Stager].head = head
    /\ meta[Stager].last_offset = Some(IntervalOf(AddDataBlocks[1]).end)
    /\ Len(meta[Stager].data_slices) = 1
    /\ meta[Stager].last_source_state = Some(1)

\* C33 (the claim, which the code violates): a staged result whose offsets
\* were computed from a projection the writer has since left is never
\* committed, so no data-carrying AddData block has an offset interval that
\* overlaps or repeats the interval of an earlier one.
C33_NoStaleCommit ==
    \A i, j \in 1..Len(DataBlocks) :
        i < j => IntervalOf(DataBlocks[i]).end < IntervalOf(DataBlocks[j]).start

\* C34: under any interleaving of the commit steps of the writers the chain is
\* one linear list: no two blocks have the same predecessor and every block
\* but the first follows the block before it; a block appended by a commit
\* has as previous hash the head of that moment and becomes the head; and the
\* writer that appends has the chain's head as its projection head.
C34_ChainStaysLinear ==
    /\ [](/\ \A i, j \in 1..Len(blocks) :
                blocks[i].prev_block_hash = blocks[j].prev_block_hash => i = j
          /\ Len(Chain) = Len(blocks))
    /\ [][blocks' # blocks
            => /\ Len(blocks') = Len(blocks) + 1
               /\ SubSeq(blocks', 1, Len(blocks)) = blocks
               /\ blocks'[Len(blocks')].prev_block_hash = head
               /\ head' = Len(blocks')
               /\ \E w \in Writers : Appended(w) /\ meta[w].head = head
               /\ \A w \in Writers : meta[w].head # head => ~Appended(w)]_vars

\* Both writers have appended blocks, and the commit of one whose projection
\* was left behind has been rejected
C34_Witness ==
    /\ Len(blocks) >= 4
    /\ last.w = "W2" /\ last.kind = "CommitError"
    /\ meta["W2"].head # head
    /\ meta["W2"].head > 1
    /\ meta["W1"].head = head

\* The block a step appends, if it appends one
AppendedBlock == blocks'[Len(blocks')]

\* C35: commit appends a SetDataSchema block exactly when the writer's
\* projection has no schema and the staged result carries an output schema,
\* also when the merge left no rows and the AddData block that follows has no
\* output data; write(None, ...) on a dataset without schema appends only the
\* AddData block and leaves the schema unset.
C35_SchemaCommittedWhenMissing ==
    [][/\ (pc[Stager] = "idle" /\ held[Stager] # None /\ held'[Stager] = None
             /\ last'.op # "build")
             => LET staged == held[Stager][1]
                    needed == meta[Stager].schema = None /\ staged.output_schema # None
                IN  /\ (needed /\ blocks' # blocks)
                          => /\ AppendedBlock.event = SetDataSchema(staged.output_schema[1])
                             /\ pc'[Stager] = "commit_data"
                             /\ call'[Stager].staged = staged
                    /\ (~needed /\ blocks' # blocks)
                          => /\ AppendedBlock.event.type = "AddData"
                             /\ meta'[Stager].schema = meta[Stager].schema
                    /\ blocks' = blocks => last'.kind = "CommitError"
       /\ (pc[Stager] = "commit_data" /\ blocks' # blocks)
             => /\ AppendedBlock.event.type = "AddData"
                /\ (AppendedBlock.event.output_data = None)
                      = (call[Stager].staged.data_file = None)
       /\ \A c \in NoDataCalls :
             (pc[Stager] = "idle" /\ meta[Stager].schema = None
                /\ Write(Stager, c.new_data, c.opts, c.fault) /\ blocks' # blocks)
                => /\ AppendedBlock.event.type = "AddData"
                   /\ meta'[Stager].schema = None]_vars

\* On a dataset without schema a batch without rows, carrying a source state,
\* was committed: the chain is Seed, SetDataSchema, AddData without output data
C35_Witness ==
    /\ JustCommitted(Stager)
    /\ Len(Chain) = 3
    /\ Chain[2].event.type = "SetDataSchema"
    /\ Chain[3].event.type = "AddData"
    /\ Chain[3].event.output_data = None
    /\ meta[Stager].schema = Some(Chain[2].event.schema)

\* ------------------------------------------------------------------ remote aliases
MaxAliases == 2
RemoteDatasetNames == 1..MaxAliases
RemoteAliasKinds == {"Pull", "Push"}

DatasetConfig_default == [pull_aliases |-> <<>>, push_aliases |-> <<>>]

\* A config file that a failed serialization left truncated
Corrupt == [deserializable |-> FALSE]

\* What a call of write_config can meet: File::create fails, or to_writer does
ConfigFaults == {"none", "create", "write"}

\* The lists without repetition over the remote names, and the configs of them
NoRepetition(s) == \A i, j \in 1..Len(s) : s[i] = s[j] => i = j
AliasLists ==
    {s \in UNION {[1..n -> RemoteDatasetNames] : n \in 0..MaxAliases} : NoRepetition(s)}
DatasetConfigs == [pull_aliases : AliasLists, push_aliases : AliasLists]

\* match kind { Pull => config.pull_aliases, Push => config.push_aliases }
AliasesOf(config, kind) ==
    IF kind = "Pull" THEN config.pull_aliases ELSE config.push_aliases
WithAliases(config, kind, aliases) ==
    IF kind = "Pull" THEN [config EXCEPT !.pull_aliases = aliases]
    ELSE [config EXCEPT !.push_aliases = aliases]

Contains(aliases, remote_ref) == \E i \in 1..Len(aliases) : aliases[i] = remote_ref

\* aliases.iter().position(|r| *r == *remote_ref)
Position(aliases, remote_ref) ==
    IF Contains(aliases, remote_ref)
    THEN Some(CHOOSE i \in 1..Len(aliases) :
                 /\ aliases[i] = remote_ref
                 /\ \A j \in 1..(i - 1) : aliases[j] # remote_ref)
    ELSE None

\* aliases.remove(i)
Remove(aliases, i) == SubSeq(aliases, 1, i - 1) \o SubSeq(aliases, i + 1, Len(aliases))

\* get_config: the content of the file, the default when there is no file,
\* a panic when the file cannot be deserialized
get_config(file) ==
    IF file = None THEN [kind |-> "Ok", config |-> DatasetConfig_default]
    ELSE IF file = Some(Corrupt) THEN [kind |-> "Panic"]
    ELSE [kind |-> "Ok", config |-> file[1]]

\* set_config, write_config: the file afterwards and the result
set_config(file, config, fault) ==
    CASE fault = "none" -> [kind |-> "Ok", file |-> Some(config)]
      [] fault = "create" -> [kind |-> "Error", file |-> file]
      [] OTHER -> [kind |-> "Error", file |-> Some(Corrupt)]

\* Mutant of add: the alias is pushed whether or not the list has it
add_NoContains(config, remote_ref, kind) ==
    [config |-> WithAliases(config, kind, Append(AliasesOf(config, kind), remote_ref)),
     write |-> TRUE,
     result |-> TRUE]

\* RemoteAliasesImpl::add up to set_config: the handle's config, whether it
\* is written, and the result of a call whose write succeeds
add(config, remote_ref, kind) ==
    IF ~Contains(AliasesOf(config, kind), remote_ref)
    THEN [config |-> WithAliases(config, kind, Append(AliasesOf(config, kind), remote_ref)),
          write |-> TRUE,
          result |-> TRUE]
    ELSE [config |-> config, write |-> FALSE, result |-> FALSE]

\* RemoteAliasesImpl::delete up to set_config
delete(config, remote_ref, kind) ==
    LET i == Position(AliasesOf(config, kind), remote_ref)
    IN  IF i # None
        THEN [config |-> WithAliases(config, kind, Remove(AliasesOf(config, kind), i[1])),
              write |-> TRUE,
              result |-> TRUE]
        ELSE [config |-> config, write |-> FALSE, result |-> FALSE]

\* RemoteAliasesImpl::clear up to set_config
clear(config, kind) ==
    LET len == Len(AliasesOf(config, kind))
    IN  IF len # 0
        THEN [config |-> WithAliases(config, kind, <<>>), write |-> TRUE, result |-> len]
        ELSE [config |-> config, write |-> FALSE, result |-> len]

\* The end of add, delete and clear: the handle keeps the config it changed,
\* set_config is called when something changed, `?` returns its error
Mutate(h, op, r, fault) ==
    /\ handles' = [handles EXCEPT ![h] = Some(r.config)]
    /\ IF r.write
       THEN LET w == set_config(configFile, r.config, fault)
            IN  /\ configFile' = w.file
                /\ last' = IF w.kind = "Ok" THEN Outcome(h, op, "Ok", Some(r.result))
                           ELSE Outcome(h, op, "Error", None)
       ELSE /\ fault = "none"
            /\ UNCHANGED configFile
            /\ last' = Outcome(h, op, "Ok", Some(r.result))
    /\ UNCHANGED <<writerVars, ws, tasks>>

\* RemoteAliasesRegistryImpl::get_remote_aliases
GetRemoteAliases(h) ==
    /\ LET r == get_config(configFile)
       IN  IF r.kind = "Ok"
           THEN /\ handles' = [handles EXCEPT ![h] = Some(r.config)]
                /\ last' = Outcome(h, "get_remote_aliases", "Ok", None)
           ELSE /\ UNCHANGED handles
                /\ last' = Outcome(h, "get_remote_aliases", "Panic", None)
    /\ UNCHANGED <<writerVars, ws, tasks, configFile>>

Add(h, remote_ref, kind, fault) ==
    /\ handles[h] # None
    /\ Mutate(h, "add", add(handles[h][1], remote_ref, kind), fault)

Delete(h, remote_ref, kind, fault) ==
    /\ handles[h] # None
    /\ Mutate(h, "delete", delete(handles[h][1], remote_ref, kind), fault)

Clear(h, kind, fault) ==
    /\ handles[h] # None
    /\ Mutate(h, "clear", clear(handles[h][1], kind), fault)

\* The dataset has any config file, or none; no handle was obtained yet
InitAliases ==
    /\ configFile \in {None} \cup {Some(c) : c \in DatasetConfigs}
    /\ handles = NoHandles
    /\ blocks = <<Block(NoHash, Seed)>>
    /\ head = 1
    /\ dataRepo = {}
    /\ meta = [w \in Writers |-> Unprojected]
    /\ held = [w \in Writers |-> None]
    /\ pc = [w \in Writers |-> "none"]
    /\ call = [w \in Writers |-> NoCall]
    /\ last = Outcome("", "init", "Ok", None)
    /\ ws = NoDatasets
    /\ tasks = NoTasks

\* One handle, of both kinds of aliases, with config writes that may fail
NextAliases ==
    \/ GetRemoteAliases("H1")
    \/ \E remote_ref \in RemoteDatasetNames, kind \in RemoteAliasKinds, fault \in ConfigFaults :
          Add("H1", remote_ref, kind, fault)
    \/ \E remote_ref \in RemoteDatasetNames, kind \in RemoteAliasKinds, fault \in ConfigFaults :
          Delete("H1", remote_ref, kind, fault)
    \/ \E kind \in RemoteAliasKinds, fault \in ConfigFaults : Clear("H1", kind, fault)

SpecAliases == InitAliases /\ [][NextAliases]_vars

\* The other kind of alias
OtherKind(kind) == IF kind = "Pull" THEN "Push" ELSE "Pull"
Elements(s) == {s[i] : i \in 1..Len(s)}

\* C36: on a handle whose lists start without repetition, no list ever holds
\* an alias twice; add inserts the alias and, when it returns, returns true
\* exactly when the list of that kind did not hold it; delete removes the alias
\* and returns true exactly when the list held it; clear empties the list; and
\* an operation on one kind leaves the list of the other kind as it was.
C36_NoDuplicateAliases ==
    /\ [](\A h \in Handles :
             handles[h] # None
                => \A kind \in RemoteAliasKinds : NoRepetition(AliasesOf(handles[h][1], kind)))
    /\ [][\A remote_ref \in RemoteDatasetNames, kind \in RemoteAliasKinds,
             fault \in ConfigFaults :
             LET before == AliasesOf(handles["H1"][1], kind)
                 after == AliasesOf(handles'["H1"][1], kind)
                 other_same == AliasesOf(handles'["H1"][1], OtherKind(kind))
                                  = AliasesOf(handles["H1"][1], OtherKind(kind))
             IN  /\ (last'.op = "add" /\ Add("H1", remote_ref, kind, fault))
                       => /\ after = IF Contains(before, remote_ref) THEN before
                                     ELSE Append(before, remote_ref)
                          /\ last'.kind = "Ok"
                                => last'.result = Some(~Contains(before, remote_ref))
                          /\ other_same
                 /\ (last'.op = "delete" /\ Delete("H1", remote_ref, kind, fault))
                       => /\ ~Contains(after, remote_ref)
                          /\ Elements(after) = Elements(before) \ {remote_ref}
                          /\ Contains(before, remote_ref) => Len(after) = Len(before) - 1
                          /\ ~Contains(before, remote_ref) => after = before
                          /\ last'.kind = "Ok"
                                => last'.result = Some(Contains(before, remote_ref))
                          /\ other_same
                 /\ (last'.op = "clear" /\ Clear("H1", kind, fault))
                       => /\ after = <<>>
                          /\ last'.kind = "Ok" => last'.result = Some(Len(before))
                          /\ other_same]_vars

\* The handle holds two pull aliases and one push alias, and an add of an
\* alias it holds has returned false
C36_Witness ==
    /\ handles["H1"] # None
    /\ handles["H1"][1].pull_aliases = <<2, 1>>
    /\ handles["H1"][1].push_aliases = <<1>>
    /\ last.op = "add" /\ last.kind = "Ok" /\ last.result = Some(FALSE)

\* C37 (the claim, which the code violates): after every add, delete or clear
\* on a handle, whether it returned Ok or an error, the lists the handle holds
\* in memory are those of the persisted config.
C37_MemoryEqualsPersisted ==
    (handles["H1"] # None /\ last.op \in {"add", "delete", "clear"})
        => /\ get_config(configFile).kind = "Ok"
           /\ get_config(configFile).config = handles["H1"][1]

\* ------------------------------------------------------------------ two handles of one dataset
\* Two handles of a dataset without config file, used for pull aliases, every
\* config write succeeding
NextAliasesShared ==
    \E h \in Handles :
        \/ GetRemoteAliases(h)
        \/ \E remote_ref \in RemoteDatasetNames : Add(h, remote_ref, "Pull", "none")
        \/ \E remote_ref \in RemoteDatasetNames : Delete(h, remote_ref, "Pull", "none")
        \/ Clear(h, "Pull", "none")

InitAliasesShared ==
    /\ configFile = NoFile
    /\ handles = NoHandles
    /\ blocks = <<Block(NoHash, Seed)>>
    /\ head = 1
    /\ dataRepo = {}
    /\ meta = [w \in Writers |-> Unprojected]
    /\ held = [w \in Writers |-> None]
    /\ pc = [w \in Writers |-> "none"]
    /\ call = [w \in Writers |-> NoCall]
    /\ last = Outcome("", "init", "Ok", None)
    /\ ws = NoDatasets
    /\ tasks = NoTasks

SpecAliasesShared == InitAliasesShared /\ [][NextAliasesShared]_vars

\* The pull aliases persisted
PersistedPull(file) == Elements(get_config(file).config.pull_aliases)

\* C38 (the claim, which the code violates): with two handles of one dataset a
\* mutation through one handle keeps what was persisted through the other:
\* after an add the persisted aliases are those persisted before and the new
\* one, after a delete those persisted before without the deleted one.
C38_WritesKeepOtherHandle ==
    [][\A h \in Handles, remote_ref \in RemoteDatasetNames :
          /\ (last'.op = "add" /\ Add(h, remote_ref, "Pull", "none")
                /\ last'.result = Some(TRUE))
                => PersistedPull(configFile') = PersistedPull(configFile) \cup {remote_ref}
          /\ (last'.op = "delete" /\ Delete(h, remote_ref, "Pull", "none")
                /\ last'.result = Some(TRUE))
                => PersistedPull(configFile') = PersistedPull(configFile) \ {remote_ref}]_vars

====
